---------------------------- MODULE Spec2Model ----------------------------
(***************************************************************************)
(* Row-fill engine of the OCR "add rows" script: window.$addRows,          *)
(* withAlertTrap, addOneRowAndFill, fillRow, fillOneField and the waits    *)
(* they rest on, together with the schema registry they read and a host    *)
(* page that answers row-creation requests and may call window.alert.      *)
(*                                                                         *)
(* JavaScript is single-threaded: the host page runs only while the engine *)
(* is suspended at an await that needs a timer or a DOM event (Suspended), *)
(* or synchronously inside an event the engine dispatches (the alert       *)
(* choices of Click and FillStep).                                         *)
(***************************************************************************)
EXTENDS Integers, Sequences, FiniteSets, TLC

-----------------------------------------------------------------------------
(* Bounds of the model *)

MaxRecords == 2
MaxAlerts == 2
MaxImages == 2
MaxItems == 2

-----------------------------------------------------------------------------
(* Schema registry: tno_ai_ocr_add_rows_schema.js *)

\* Object.keys(TNO_SCHEMA.fields), in declaration order
SchemaFieldKeys ==
    <<"stkcode_code", "description", "remark", "qnty_total",
      "uom_trans_code", "price_unitrate_forex">>

\* TNO_SCHEMA.fields[key].dom.base
DomBase(key) ==
    CASE key = "stkcode_code" -> "stkcode_code"
      [] key = "description" -> "stkcode_desc"
      [] key = "remark" -> "desc"
      [] key = "qnty_total" -> "qnty_total"
      [] key = "uom_trans_code" -> "uom_trans_code"
      [] key = "price_unitrate_forex" -> "fmi_aup"
      [] OTHER -> ""

\* TNO_SCHEMA.fields[key].dom.suffix with {i} taken out: what follows the row index
DomSuffixTail(key) ==
    IF key \in {"uom_trans_code", "price_unitrate_forex"} THEN "_disp" ELSE ""

\* TNO_SCHEMA.transactions
SchemaTransactions ==
    [default |-> <<"stkcode_code", "description", "remark", "uom_trans_code",
                   "qnty_total", "price_unitrate_forex">>]

\* TNO_SCHEMA.fillOrder
SchemaFillOrder ==
    <<"stkcode_code", "description", "remark", "uom_trans_code",
      "qnty_total", "price_unitrate_forex">>

Range(s) == {s[n] : n \in DOMAIN s}

\* Names every object literal answers to without owning them: the members it
\* inherits from Object.prototype (two of them stand for all)
ObjectPrototypeNames == {"constructor", "toString"}

\* the function object found under an inherited name; it is truthy, it is not
\* an array and it is not iterable
InheritedMember(name) == <<"function", name>>

IsFunctionValue(v) == Len(v) = 2 /\ v[1] = "function"

\* schema.transactions[transactionType] || schema.transactions.default: the
\* property read finds an own property, else an inherited one, else undefined
getAllowedKeys(transactionType) ==
    IF transactionType \in DOMAIN SchemaTransactions
    THEN SchemaTransactions[transactionType]
    ELSE IF transactionType \in ObjectPrototypeNames
    THEN InheritedMember(transactionType)
    ELSE SchemaTransactions["default"]

\* a mutant: the record is walked in Object.keys(schema.fields) order
getFieldFillOrder_declarationOrder(transactionType) ==
    LET allowed == Range(getAllowedKeys(transactionType))
        InAllowed(k) == k \in allowed
    IN SelectSeq(SchemaFieldKeys, InAllowed)

\* seq.filter(k => allowed.has(k)), seq being fillOrder unless it is empty
getFieldFillOrder(transactionType) ==
    LET allowed == Range(getAllowedKeys(transactionType))
        seq == IF Len(SchemaFillOrder) > 0 THEN SchemaFillOrder ELSE SchemaFieldKeys
        InAllowed(k) == k \in allowed
    IN SelectSeq(seq, InAllowed)

\* getColumnName: the DOM name base + rowIndex + suffix, as a triple; <<>> stands
\* for undefined (key outside the whitelist, or a field without a dom base)
getColumnName(rowIndex, key, transactionType) ==
    IF key \notin Range(getAllowedKeys(transactionType)) THEN <<>>
    ELSE IF DomBase(key) = "" THEN <<>>
    ELSE <<DomBase(key), rowIndex, DomSuffixTail(key)>>

-----------------------------------------------------------------------------
(* Values of a row record.  A value is [type, s]: its JavaScript type and the *)
(* characters of String(value).                                             *)

Str(chars) == [type |-> "string", s |-> chars]
Num(chars) == [type |-> "number", s |-> chars]
NullValue == [type |-> "null", s |-> <<>>]
UndefinedValue == [type |-> "undefined", s |-> <<>>]

RECURSIVE TrimLeft(_)
TrimLeft(s) == IF s # <<>> /\ Head(s) = " " THEN TrimLeft(Tail(s)) ELSE s

RECURSIVE TrimRight(_)
TrimRight(s) ==
    IF s # <<>> /\ s[Len(s)] = " " THEN TrimRight(SubSeq(s, 1, Len(s) - 1)) ELSE s

\* String.prototype.trim
Trim(s) == TrimRight(TrimLeft(s))

\* a mutant: only null and undefined are skipped, blank strings are written
IsSkippedValue_nullOnly(value) == value.type \in {"null", "undefined"}

\* fillRow: value == null || (typeof value === 'string' && value.trim() === '')
IsSkippedValue(value) ==
    \/ value.type \in {"null", "undefined"}
    \/ value.type = "string" /\ Trim(value.s) = <<>>

\* addOneRowAndFill: stockCodeValue && String(stockCodeValue).trim() !== ''
HasStockCode(payload) ==
    /\ "stkcode_code" \in DOMAIN payload.data
    /\ payload.data["stkcode_code"].type \notin {"null", "undefined"}
    /\ ~(payload.data["stkcode_code"].type = "number"
            /\ payload.data["stkcode_code"].s = <<"0">>)
    /\ Trim(payload.data["stkcode_code"].s) # <<>>

\* Row records the batch may be given: keys is Object.keys(record) in the
\* record's own order, data the values
RecordPool ==
    { [keys |-> <<"price_unitrate_forex", "qnty_total", "uom_trans_code", "description",
                  "stkcode_code">>,
       data |-> [k \in {"price_unitrate_forex", "qnty_total", "uom_trans_code",
                        "description", "stkcode_code"} |->
                   CASE k = "price_unitrate_forex" -> Num(<<"9">>)
                     [] k = "qnty_total" -> Num(<<"2">>)
                     [] k = "uom_trans_code" -> Str(<<"P", "C">>)
                     [] k = "description" -> Str(<<"n", "u", "t">>)
                     [] OTHER -> Str(<<" ">>)]],
      [keys |-> <<"qnty_total", "uom_trans_code", "remark", "description", "stkcode_code">>,
       data |-> [k \in {"qnty_total", "uom_trans_code", "remark", "description",
                        "stkcode_code"} |->
                   CASE k = "qnty_total" -> NullValue
                     [] k = "uom_trans_code" -> Str(<<>>)
                     [] k = "remark" -> Str(<<" ", " ">>)
                     [] k = "description" -> Str(<<"b", "o", "l", "t">>)
                     [] OTHER -> Str(<<"S", "1">>)]],
      [keys |-> <<"stkcode_code", "foo", "qnty_total", "price_unitrate_forex">>,
       data |-> [k \in {"stkcode_code", "foo", "qnty_total", "price_unitrate_forex"} |->
                   CASE k = "stkcode_code" -> Num(<<"5">>)
                     [] k = "foo" -> Str(<<"x">>)
                     [] k = "qnty_total" -> Num(<<"0">>)
                     [] OTHER -> UndefinedValue]] }

\* Transaction types the batch may be called with
TransactionTypes == {"default"}

\* Progress callbacks the batch may be called with: "fn" is a function that
\* returns normally, "none" is null (the same batch without the calls)
ProgressCallbacks == {"fn"}

\* Every kind of onProgress argument: null, a function that returns normally,
\* a function that throws
AnyProgressCallbacks == {"none", "fn", "throws"}

\* Messages the host may pass to window.alert: the first alert of a batch says
\* "m1", every later one "m2" (what the trap does depends on no message, so
\* two messages that tell the first alert from the later ones are enough)
Msgs(nth) == IF nth = 1 THEN {"m1"} ELSE {"m2"}

\* the value null of a result entry or of newRowIndex
Null == 0 - 1

-----------------------------------------------------------------------------
(* State *)

VARIABLES
    rows,             \* $addRows: the rows argument
    onProgress,       \* $addRows: "none" (null) or "fn" (a callback)
    transactionType,  \* $addRows: the transactionType argument
    schemaLoaded,     \* window.TNO_SCHEMA is the object of schema.js (FALSE: it is undefined)
    pc,               \* where the batch call stands
    i,                \* $addRows: the loop index, 0-based
    newRowIds,        \* $addRows: the results pushed so far
    initialRowIndex,  \* addOneRowAndFill
    expectedRowIndex, \* addOneRowAndFill
    newRowIndex,      \* addOneRowAndFill
    isStockItem,      \* addOneRowAndFill
    onclickSuccess,   \* autoSearchStockCode.watchAndSelectThenClose
    cursor,           \* fillRow: position in the fill order, 1-based
    trapInstalled,    \* window.alert is withAlertTrap's function
    aborted,          \* withAlertTrap
    lastMsg,          \* withAlertTrap
    settled,          \* "pending", "resolved" or "rejected": the promise of $addRows
    result,           \* the list $addRows resolved with
    err,              \* the error $addRows rejected with
    hasCounter,       \* host: an element named HddenMaxRowAdded exists
    counter,          \* host: its value
    dom,              \* host: the rows shown, row n being tr#rowtr<n>; base name -> value
    pending,          \* host: creation requests not yet answered
    auxLists,         \* the hidden <select> lists the engine appended
    alertsShown,      \* history: the messages passed on to the original alert
    alertRec,         \* history: the record in flight at the first alert, 0 if none
    eventLog,         \* history: per record, the events fired on form elements, <<row, base, event>>
    creationLog,      \* history: creation requests, [rec, kind]
    phases,           \* history: per record, the phases entered
    createOutcome,    \* history: per record, how its row creation ended
    searchOutcome,    \* history: per record, how its stock search ended
    rowBefore,        \* history: the row being filled as it was when fillRow began
    progressCalls,    \* history: the (current, total) pairs given to onProgress
    fExtended,        \* one fillOneField call: the schema also registers ExtendedKeys
    fType,            \* one fillOneField call: transactionType
    fKey,             \* one fillOneField call: key
    fValue,           \* one fillOneField call: value
    fEl,              \* one fillOneField call: the element named fieldName
    fOld,             \* history: that element as it was when the call began
    fFlag,            \* the value of fmi_unit_price_editable<rowIndex>
    fTodo,            \* one fillOneField call: what the branch taken still has to do
    fPc,              \* one fillOneField call: "idle", "enter", "run" or "done"
    fAborted,         \* one fillOneField call: what isAborted() returns
    fThrown,          \* one fillOneField call: the error it threw, "" if none
    fLog,             \* history: the events dispatched on the element, and its value commits
    oFiles,           \* getOcrResults: the number of images in files
    oI,               \* getOcrResults: the loop index, 0-based
    oRetries,         \* getOcrResults: retries
    oPc,              \* getOcrResults: "idle", "start", "read", "unread", "send", "await", "delay" or "done"
                      \* ("rejected" were its promise to reject)
    oAllItems,        \* getOcrResults: allItems
    oReturned,        \* getOcrResults: the list it returned, once it has
    oWaited,          \* the milliseconds slept since the last response
    oReqs,            \* history: per image, the requests sent: [images, waited]
    oReplies,         \* history: per image, the responses: [status, items]
    oEnded,           \* history: per image, how its attempt ended: "none", "ok", "error", "exhausted"
    jText,            \* safeJsonExtract: text, as a sequence of tokens
    jPc,              \* safeJsonExtract: "idle", "call" or "done"
    jResult,          \* safeJsonExtract: [threw, items], items being the number of records returned
    sLoaded,          \* one string field's way through the pipeline: window.TNO_SCHEMA is set
    sKey,             \* ... the key of the field
    sRaw,             \* ... raw[k], a string, as its runs of equal characters
    sPc,              \* ... "idle", "normalize", "sanitize" or "done"
    sOut,             \* ... out[k]
    nLoaded,          \* one item's way through the pipeline: window.TNO_SCHEMA is set
    nType,            \* ... transactionType
    nRaw,             \* ... the element of the parsed array: key -> value
    nPc,              \* ... "idle", "normalize", "sanitize" or "done"
    nOut,             \* ... the record made of it: key -> value
    cFile,            \* compressImage: file, [image, size]
    cTarget,          \* compressImage: targetBytes
    cPc,              \* compressImage: "idle", "start", "load", "encode" or "done"
    cIter,            \* compressImage: iter
    cQuality,         \* compressImage: quality, in hundredths
    cScale,           \* compressImage: scale, in thousandths
    cBest,            \* compressImage: bestBlob, [n, size], n = 0 for null
    cSizes,           \* history: the sizes of the blobs the encoder produced
    cEncodes,         \* history: the number of canvasToBlob calls
    cFailed,          \* history: a canvasToBlob call rejected
    cResult,          \* compressImage: what the promise resolved with, [n, size]
    wKind,            \* one wait of the engine: which of WaitKinds it is
    wArgs,            \* ... its arguments
    wPc,              \* ... "idle", "call", "wait", "done" or "returned"
    wNow,             \* ... Date.now(), in ms from the call
    wAborted,         \* ... what isAborted() returns
    wAbortTicks,      \* history: the callbacks that found the flag set and left the wait going
    wValue,           \* ... what its promise settled with, "pending" before
    wResolvedAt,      \* history: the time its promise settled
    wResolveCalls,    \* history: the calls of resolve or reject
    wPollerOn,        \* ... its interval (or its chain of poll timers) is set
    wPollerDue,       \* ... the time the interval runs next
    wTimerOn,         \* ... its timeout timer is set
    wTimerDue,        \* ... the time that timer runs
    wObservers,       \* ... its MutationObservers that are connected
    wLastMutation,    \* waitForDomStable: lastMutation
    wRealMutation,    \* history: the time of the last change of the container
    wRowVisible,      \* host: the expected row is shown
    wCounterReached,  \* host: HddenMaxRowAdded is at least the expected index
    wAttempts,        \* addOneRowAndFill: attempts
    wWaited,          \* sleepAbortable: waited
    wOnclick,         \* watchAndSelectThenClose: onclickSuccess
    wThen,            \* history: what the caller did with the value
    tAlert,           \* withAlertTrap: window.alert, 0 for the page's own function, c for the trap of call c
    tCalls,           \* withAlertTrap: per call, [pc, originalAlert, aborted, settled]
    tShown,           \* history: the alerts passed on to the page's own function
    tOverlapped,      \* history: a call began while another was in flight
    lState,           \* loader overlay: data-state of the container
    lShown,           \* loader overlay: overlay.style.display is flex
    lClosable,        \* loader overlay: loaderClosable
    lKeydown,         \* loader overlay: handleOverlayKeydown is registered on the document
    lCloseTimers,     \* handleFiles: closeLoader timers set and not yet fired
    lRendering,       \* handleFiles: calls awaiting processPdf
    lSubmitPc,        \* submit handler: "idle", "compress", "ocr", "rows" or "stable"
    lUploaded,        \* uploadedFiles.length
    lDrops,           \* file selections so far
    hPc,              \* runTest: "idle", "parts", "call", "delay", "finished" or "failed"
    hN,               \* runTest: N
    hI,               \* runTest: the loop index i
    hDelay,           \* runTest: delayMs > 0
    hCancelFlag,      \* cancelFlag
    hResults,         \* lastResults, as the ok flags of its entries
    hCalls,           \* callGemini calls started in this run
    hRunDisabled,     \* elements.runBtn.disabled
    hCancelDisabled,  \* elements.cancelBtn.disabled
    hExportDisabled,  \* elements.exportBtn.disabled
    hExports          \* downloads started by the export button

vars ==
    <<rows, onProgress, transactionType, schemaLoaded, pc, i, newRowIds, initialRowIndex,
      expectedRowIndex, newRowIndex, isStockItem, onclickSuccess, cursor,
      trapInstalled, aborted, lastMsg, settled, result, err, hasCounter, counter,
      dom, pending, auxLists, alertsShown, alertRec, eventLog, creationLog, phases,
      createOutcome, searchOutcome, rowBefore, progressCalls,
      fExtended, fType, fKey, fValue, fEl, fOld, fFlag, fTodo, fPc, fAborted, fThrown, fLog,
      oFiles, oI, oRetries, oPc, oAllItems, oReturned, oWaited, oReqs, oReplies, oEnded,
      jText, jPc, jResult, sLoaded, sKey, sRaw, sPc, sOut,
      nLoaded, nType, nRaw, nPc, nOut,
      cFile, cTarget, cPc, cIter, cQuality, cScale, cBest, cSizes, cEncodes, cFailed, cResult,
      wKind, wArgs, wPc, wNow, wAborted, wAbortTicks, wValue, wResolvedAt, wResolveCalls,
      wPollerOn, wPollerDue, wTimerOn, wTimerDue, wObservers, wLastMutation, wRealMutation,
      wRowVisible, wCounterReached, wAttempts, wWaited, wOnclick, wThen,
      tAlert, tCalls, tShown, tOverlapped,
      lState, lShown, lClosable, lKeydown, lCloseTimers, lRendering, lSubmitPc, lUploaded, lDrops,
      hPc, hN, hI, hDelay, hCancelFlag, hResults, hCalls, hRunDisabled, hCancelDisabled, hExportDisabled, hExports>>

\* the variables of a safeJsonExtract call
jsonVars == <<jText, jPc, jResult>>

\* the variables of the helpers of ocr.js followed on their own
\* the variables of one string field on its way through normalizeAndValidate
\* and sanitizeItems
stringVars == <<sLoaded, sKey, sRaw, sPc, sOut>>

\* the variables of one item on its way through normalizeAndValidate and
\* sanitizeItems
itemVars == <<nLoaded, nType, nRaw, nPc, nOut>>

\* the variables of a compressImage call
compressVars ==
    <<cFile, cTarget, cPc, cIter, cQuality, cScale, cBest, cSizes, cEncodes, cFailed, cResult>>

\* the variables of one wait of the engine followed timer by timer
waitVars ==
    <<wKind, wArgs, wPc, wNow, wAborted, wAbortTicks, wValue, wResolvedAt, wResolveCalls,
      wPollerOn, wPollerDue, wTimerOn, wTimerDue, wObservers, wLastMutation, wRealMutation,
      wRowVisible, wCounterReached, wAttempts, wWaited, wOnclick, wThen>>

trapVars == <<tAlert, tCalls, tShown, tOverlapped>>

loaderVars == <<lState, lShown, lClosable, lKeydown, lCloseTimers, lRendering, lSubmitPc, lUploaded, lDrops>>

harnessVars == <<hPc, hN, hI, hDelay, hCancelFlag, hResults, hCalls, hRunDisabled, hCancelDisabled, hExportDisabled, hExports>>

helperVars == <<jsonVars, stringVars, itemVars, compressVars, waitVars, trapVars, loaderVars, harnessVars>>

\* the variables of a getOcrResults call
ocrVars ==
    <<oFiles, oI, oRetries, oPc, oAllItems, oReturned, oWaited, oReqs, oReplies, oEnded>>

\* the variables of a single fillOneField call
fieldVars ==
    <<fExtended, fType, fKey, fValue, fEl, fOld, fFlag, fTodo, fPc, fAborted, fThrown, fLog>>

\* what no step of a batch changes: its arguments, the page's configuration,
\* and the variables of the other procedures
inputVars ==
    <<rows, onProgress, transactionType, schemaLoaded, hasCounter, fieldVars, ocrVars,
      helperVars>>
localVars == <<initialRowIndex, expectedRowIndex, newRowIndex, isStockItem, onclickSuccess, cursor, rowBefore>>
callVars == <<i, newRowIds, progressCalls, trapInstalled, settled, result, err>>
abortVars == <<aborted, lastMsg, alertsShown, alertRec>>
hostVars == <<counter, dom, pending, auxLists>>
histVars == <<eventLog, creationLog, phases, createOutcome, searchOutcome>>

NoError == [code |-> "", message |-> <<>>]
NoAlert == ""

\* host: the largest n with tr#rowtr<n> visible
visMax == Len(dom)

\* host: the bases of the inputs of a row
RowBases ==
    {DomBase(SchemaFieldKeys[n]) : n \in DOMAIN SchemaFieldKeys} \cup {"fmi_unit_price_editable"}

\* host: the row it shows for a request: a non-stock row is blank but for its
\* default quantity, a stock row carries the selected item
HostRow(kind) ==
    [b \in RowBases |->
        IF b = "qnty_total" THEN <<"1">>
        ELSE IF kind = "stock" /\ b \in {"stkcode_code", "stkcode_desc", "desc"} THEN <<"h">>
        ELSE <<>>]

TupleOf(n, v) == [k \in 1..n |-> v]

\* no element with the looked-up name
NoElement ==
    [present |-> FALSE, kind |-> "", visible |-> FALSE, readOnly |-> FALSE,
     value |-> <<>>, checked |-> FALSE]

\* no fillOneField call is being followed on its own
FieldIdle ==
    /\ fExtended = FALSE
    /\ fType = "default"
    /\ fKey = ""
    /\ fValue = NullValue
    /\ fEl = NoElement
    /\ fOld = NoElement
    /\ fFlag = ""
    /\ fTodo = <<>>
    /\ fPc = "idle"
    /\ fAborted = FALSE
    /\ fThrown = ""
    /\ fLog = <<>>

\* getOcrResults has not returned
NotReturned == <<"pending">>

\* no getOcrResults call is being followed
OcrIdle ==
    /\ oFiles = 0
    /\ oI = 0
    /\ oRetries = 0
    /\ oPc = "idle"
    /\ oAllItems = <<>>
    /\ oReturned = NotReturned
    /\ oWaited = 0
    /\ oReqs = <<>>
    /\ oReplies = <<>>
    /\ oEnded = <<>>

\* no safeJsonExtract call is being followed
JsonIdle ==
    /\ jText = <<>>
    /\ jPc = "idle"
    /\ jResult = [threw |-> FALSE, items |-> 0]

\* no string field is being followed
StringIdle ==
    /\ sLoaded = TRUE
    /\ sKey = ""
    /\ sRaw = <<>>
    /\ sPc = "idle"
    /\ sOut = <<>>

\* no item is being followed
ItemIdle ==
    /\ nLoaded = TRUE
    /\ nType = "default"
    /\ nRaw = <<>>
    /\ nPc = "idle"
    /\ nOut = <<>>

\* bestBlob = null, and the promise not resolved
NoBlob == [n |-> 0, size |-> 0]

\* no compressImage call is being followed
CompressIdle ==
    /\ cFile = [image |-> FALSE, size |-> 0]
    /\ cTarget = 0
    /\ cPc = "idle"
    /\ cIter = 0
    /\ cQuality = 0
    /\ cScale = 0
    /\ cBest = NoBlob
    /\ cSizes = {}
    /\ cEncodes = 0
    /\ cFailed = FALSE
    /\ cResult = NoBlob

\* the arguments of no wait
NoArgs ==
    [caller |-> "", container |-> FALSE, timeoutMs |-> 0, stableMs |-> 0,
     hasCounter |-> FALSE]

\* no wait is being followed
WaitsIdle ==
    /\ wKind = ""
    /\ wArgs = NoArgs
    /\ wPc = "idle"
    /\ wNow = 0
    /\ wAborted = FALSE
    /\ wAbortTicks = 0
    /\ wValue = "pending"
    /\ wResolvedAt = Null
    /\ wResolveCalls = 0
    /\ wPollerOn = FALSE
    /\ wPollerDue = 0
    /\ wTimerOn = FALSE
    /\ wTimerDue = 0
    /\ wObservers = {}
    /\ wLastMutation = 0
    /\ wRealMutation = 0
    /\ wRowVisible = FALSE
    /\ wCounterReached = FALSE
    /\ wAttempts = 0
    /\ wWaited = 0
    /\ wOnclick = FALSE
    /\ wThen = ""

TrapsIdle ==
    /\ tAlert = 0
    /\ tCalls = <<>>
    /\ tShown = 0
    /\ tOverlapped = FALSE

LoaderIdle ==
    /\ lState = "idle"
    /\ lShown = FALSE
    /\ lClosable = FALSE
    /\ lKeydown = FALSE
    /\ lCloseTimers = 0
    /\ lRendering = 0
    /\ lSubmitPc = "idle"
    /\ lUploaded = 0
    /\ lDrops = 0

HarnessIdle ==
    /\ hPc = "idle"
    /\ hN = 0
    /\ hI = 0
    /\ hDelay = FALSE
    /\ hCancelFlag = FALSE
    /\ hResults = <<>>
    /\ hCalls = 0
    /\ hRunDisabled = FALSE
    /\ hCancelDisabled = TRUE
    /\ hExportDisabled = TRUE
    /\ hExports = 0

\* no helper of ocr.js and no wait is being followed on its own
HelpersIdle ==
    /\ JsonIdle
    /\ StringIdle
    /\ ItemIdle
    /\ CompressIdle
    /\ WaitsIdle
    /\ TrapsIdle
    /\ LoaderIdle
    /\ HarnessIdle

\* the engine before $addRows is called with one of the given callbacks, on a
\* page where window.TNO_SCHEMA is in one of the given states
EngineInit(callbacks, schemaStates) ==
    /\ \E n \in 0..MaxRecords : rows \in [1..n -> RecordPool]
    /\ onProgress \in callbacks
    /\ schemaLoaded \in schemaStates
    /\ transactionType \in TransactionTypes
    /\ hasCounter \in BOOLEAN
    /\ pc = "start"
    /\ i = 0
    /\ newRowIds = <<>>
    /\ initialRowIndex = 0
    /\ expectedRowIndex = 0
    /\ newRowIndex = Null
    /\ isStockItem = FALSE
    /\ onclickSuccess = FALSE
    /\ cursor = 1
    /\ trapInstalled = FALSE
    /\ aborted = FALSE
    /\ lastMsg = ""
    /\ settled = "pending"
    /\ result = <<>>
    /\ err = NoError
    /\ counter = 0
    /\ dom = <<>>
    /\ pending = <<>>
    /\ auxLists = {}
    /\ alertsShown = <<>>
    /\ alertRec = 0
    /\ eventLog = TupleOf(Len(rows), <<>>)
    /\ creationLog = <<>>
    /\ phases = TupleOf(Len(rows), <<>>)
    /\ createOutcome = TupleOf(Len(rows), "none")
    /\ searchOutcome = TupleOf(Len(rows), "none")
    /\ rowBefore = <<>>
    /\ progressCalls = <<>>

\* the state before a batch: nothing else is being followed
InitWith(callbacks, schemaStates) ==
    /\ EngineInit(callbacks, schemaStates)
    /\ FieldIdle
    /\ OcrIdle
    /\ HelpersIdle

\* the page as the loader builds it: schema.js ran before add_rows.js, and the
\* caller's progress callback returns normally
Init == InitWith(ProgressCallbacks, {TRUE})

\* any page and any caller: the schema may be missing, the callback may be
\* null or may throw
InitAnyCaller == InitWith(AnyProgressCallbacks, BOOLEAN)

-----------------------------------------------------------------------------
(* Helpers of the engine *)

\* a mutant: the executor is handed a predicate that never reports the abort
isAborted_never == FALSE

\* withAlertTrap: the predicate () => aborted handed to the executor
isAborted == aborted

\* getCurrentRowIndex() || 0: the counter when the element exists, else the
\* largest visible row, else null
getCurrentRowIndex == IF hasCounter THEN counter ELSE visMax

\* waitForRowToBeShown.check, below its abort test
RowShown(rowIndex) ==
    \/ hasCounter /\ counter >= rowIndex
    \/ rowIndex >= 1 /\ rowIndex <= visMax

\* the engine waits on a timer or a DOM event: the host page may run
Suspended ==
    pc \in {"searchWaitInput", "searchPoll", "searchClose", "searchAfter",
            "waitRow", "stablePre", "stablePost"}

\* what a host handler may do about alerts while the trap is installed
AlertChoices ==
    {NoAlert} \cup (IF Len(alertsShown) < MaxAlerts THEN Msgs(Len(alertsShown) + 1) ELSE {})

\* a mutant: the trap keeps the message of the first alert
TrapMessage_first(msg) == IF aborted THEN lastMsg ELSE msg

\* withAlertTrap: lastMsg = String(msg ?? '')
TrapMessage(msg) == msg

\* withAlertTrap: the function installed as window.alert, called with msg
\* (NoAlert: no call)
TrapAlert(msg) ==
    IF msg = NoAlert
    THEN UNCHANGED abortVars
    ELSE /\ alertsShown' = Append(alertsShown, msg)
         /\ aborted' = TRUE
         /\ lastMsg' = TrapMessage(msg)
         /\ alertRec' = IF alertRec = 0 THEN i + 1 ELSE alertRec

EnterPhase(name) == phases' = [phases EXCEPT ![i + 1] = Append(@, name)]
SetOutcome(o) == createOutcome' = [createOutcome EXCEPT ![i + 1] = o]
SetSearchOutcome(o) == searchOutcome' = [searchOutcome EXCEPT ![i + 1] = o]

\* addOneRowAndFill goes on to its next await: the loop of $addRows and the
\* trap stand where they stood
InRecord == UNCHANGED callVars

-----------------------------------------------------------------------------
(* window.$addRows and withAlertTrap *)

\* a mutant: the trap returns the executor's result without looking at the flag
TrapThrows_never == FALSE

\* withAlertTrap: if (aborted) throw
TrapThrows == aborted

\* withAlertTrap after the executor returned ids: throw or return, and the
\* finally; the locals of the executor are gone
TrapExit(ids) ==
    /\ pc' = "settled"
    /\ trapInstalled' = FALSE
    /\ IF TrapThrows
       THEN /\ settled' = "rejected"
            /\ err' = [code |-> "TNO_ALERT_ABORT",
                       message |-> <<"Aborted by alert: ", lastMsg>>]
            /\ UNCHANGED result
       ELSE /\ settled' = "resolved"
            /\ result' = ids
            /\ UNCHANGED err
    /\ initialRowIndex' = 0
    /\ expectedRowIndex' = 0
    /\ newRowIndex' = Null
    /\ isStockItem' = FALSE
    /\ onclickSuccess' = FALSE
    /\ cursor' = 1
    /\ rowBefore' = <<>>

\* withAlertTrap when the executor threw: the finally restores window.alert and
\* the error of the executor is the rejection (the abort test is not reached)
ExecutorThrows(message) ==
    /\ pc' = "settled"
    /\ trapInstalled' = FALSE
    /\ settled' = "rejected"
    /\ err' = [code |-> "", message |-> <<message>>]
    /\ UNCHANGED result
    /\ initialRowIndex' = 0
    /\ expectedRowIndex' = 0
    /\ newRowIndex' = Null
    /\ isStockItem' = FALSE
    /\ onclickSuccess' = FALSE
    /\ cursor' = 1
    /\ rowBefore' = <<>>

\* the for loop's test at index idx and its first isAborted() break, ids being
\* the results so far; then addOneRowAndFill up to its first branch
LoopHead(idx, ids) ==
    IF idx >= Len(rows) \/ isAborted
    THEN TrapExit(ids)
    ELSE /\ initialRowIndex' = getCurrentRowIndex
         /\ newRowIndex' = Null
         /\ isStockItem' = FALSE
         /\ pc' = IF HasStockCode(rows[idx + 1]) THEN "searchStart" ELSE "click"
         /\ expectedRowIndex' = 0
         /\ onclickSuccess' = FALSE
         /\ cursor' = 1
         /\ rowBefore' = <<>>
         /\ trapInstalled' = TRUE
         /\ UNCHANGED <<settled, result, err>>

\* $addRows up to the first await of its first record: the empty-array return,
\* the trap installed, the loop entered
AddRowsEnter ==
    /\ pc = "start"
    /\ IF Len(rows) = 0
       THEN /\ pc' = "settled"
            /\ settled' = "resolved"
            /\ result' = <<>>
            /\ UNCHANGED <<trapInstalled, err, localVars>>
       ELSE LoopHead(0, <<>>)
    /\ aborted' = FALSE
    /\ lastMsg' = ""
    /\ UNCHANGED <<inputVars, i, newRowIds, progressCalls, alertsShown, alertRec,
                   hostVars, histVars>>

\* a mutant: the callback is given the 0-based loop index
ProgressArgs_zeroBased(idx) == <<idx, Len(rows)>>

\* onProgress(i + 1, totalRows)
ProgressArgs(idx) == <<idx + 1, Len(rows)>>

\* a mutant: a record whose row creation failed is left out of the results
PushResult_skipNull(ids, id) == IF id = Null THEN ids ELSE Append(ids, id)

\* newRowIds.push(newRowId)
PushResult(ids, id) == Append(ids, id)

\* addOneRowAndFill resolved with value; the loop body goes on: push, the
\* second isAborted() break, the progress callback, i++, and the loop's next
\* test
RecordDone(value) ==
    LET ids == PushResult(newRowIds, value)
    IN /\ newRowIds' = ids
       /\ IF isAborted
          THEN /\ UNCHANGED <<i, progressCalls>>
               /\ TrapExit(ids)
          ELSE /\ progressCalls' = IF onProgress # "none"
                                    THEN Append(progressCalls, ProgressArgs(i))
                                    ELSE progressCalls
               /\ IF onProgress = "throws"
                  THEN /\ UNCHANGED i
                       /\ ExecutorThrows("onProgress")
                  ELSE /\ i' = i + 1
                       /\ LoopHead(i + 1, ids)

-----------------------------------------------------------------------------
(* addOneRowAndFill, step 1: window.autoSearchStockCode *)

\* a mutant: a rejected search fails the record
SearchRejected_returnNull ==
    /\ RecordDone(Null)
    /\ SetSearchOutcome("rejected")

\* the search promise rejected: the catch of addOneRowAndFill logs "treating
\* as non-stock" and step 2 adds a non-stock row
SearchRejected ==
    /\ pc' = "click"
    /\ InRecord
    /\ UNCHANGED localVars
    /\ SetSearchOutcome("rejected")

\* the search promise resolved: addOneRowAndFill polls for the row it created
SearchResolved ==
    /\ pc' = "searchAfter"
    /\ InRecord
    /\ UNCHANGED localVars
    /\ SetSearchOutcome("resolved")

\* autoSearchStockCode entered: the key test, the click on the row's own input
SearchStart ==
    /\ pc = "searchStart"
    /\ creationLog' = Append(creationLog, [rec |-> i + 1, kind |-> "search"])
    /\ EnterPhase("SEARCH_STOCK")
    /\ IF rows[i + 1].data["stkcode_code"].type # "string"
       THEN /\ SearchRejected
            /\ UNCHANGED eventLog
       ELSE /\ pc' = "searchWaitInput"
            /\ InRecord
            /\ UNCHANGED <<localVars, searchOutcome>>
            /\ eventLog' =
                 IF initialRowIndex + 1 \in 1..visMax
                 THEN [eventLog EXCEPT ![i + 1] =
                         Append(@, <<initialRowIndex + 1, "stkcode_code", "click">>)]
                 ELSE eventLog
    /\ UNCHANGED <<inputVars, abortVars, hostVars, createOutcome>>

\* waitForElement(inputSelector): found, or not found within 5 s (a rejection)
SearchWaitInput ==
    /\ pc = "searchWaitInput"
    /\ \E found \in BOOLEAN :
          IF found
          THEN /\ pc' = "searchPoll"
               /\ InRecord
               /\ UNCHANGED <<localVars, searchOutcome>>
          ELSE SearchRejected
    /\ UNCHANGED <<inputVars, abortVars, hostVars, eventLog, creationLog, phases,
                   createOutcome>>

\* the two timers of the main flow and watchAndSelectThenClose.poll: a set
\* abort flag rejects; otherwise an item link is selected (the host is asked
\* for a stock row when its onclick ran), the empty state resolves, or the
\* search times out
SearchPoll ==
    /\ pc = "searchPoll"
    /\ IF isAborted
       THEN /\ SearchRejected
            /\ UNCHANGED pending
       ELSE \E found \in {"link", "empty", "timeout"} :
              CASE found = "link" ->
                     /\ \E ok \in BOOLEAN :
                          /\ onclickSuccess' = ok
                          /\ pending' = IF ok THEN Append(pending, "stock") ELSE pending
                     /\ pc' = "searchClose"
                     /\ InRecord
                     /\ UNCHANGED <<initialRowIndex, expectedRowIndex, newRowIndex,
                                    isStockItem, cursor, rowBefore, searchOutcome>>
                [] found = "empty" ->
                     /\ SearchResolved
                     /\ UNCHANGED pending
                [] OTHER ->
                     /\ SearchRejected
                     /\ UNCHANGED pending
    /\ UNCHANGED <<inputVars, abortVars, counter, dom, auxLists, eventLog, creationLog,
                   phases, createOutcome>>

\* after afterSelectionCloseDelay: clickClose, then resolve or reject
SearchClose ==
    /\ pc = "searchClose"
    /\ IF onclickSuccess THEN SearchResolved ELSE SearchRejected
    /\ UNCHANGED <<inputVars, abortVars, hostVars, eventLog, creationLog, phases,
                   createOutcome>>

\* the 100 ms interval after a resolved search: a row index above
\* initialRowIndex makes the record a stock item, 51 attempts without one
\* leave it a non-stock record
SearchAfter ==
    /\ pc = "searchAfter"
    /\ IF getCurrentRowIndex > initialRowIndex
       THEN /\ newRowIndex' = getCurrentRowIndex
            /\ isStockItem' = TRUE
            /\ pc' = "stablePre"
            /\ SetOutcome("created")
            /\ EnterPhase("STABILIZE_PRE")
       ELSE /\ pc' = "click"
            /\ UNCHANGED <<newRowIndex, isStockItem, createOutcome, phases>>
    /\ InRecord
    /\ UNCHANGED <<inputVars, initialRowIndex, expectedRowIndex, onclickSuccess, cursor,
                   rowBefore, abortVars, hostVars, eventLog, creationLog, searchOutcome>>

-----------------------------------------------------------------------------
(* addOneRowAndFill, step 2: the add-row control and waitForRowToBeShown *)

\* querySelector('#gononstockbtn'): missing, the record fails; else click(),
\* during which a host handler may alert
Click ==
    /\ pc = "click"
    /\ \E present \in BOOLEAN :
          IF ~present
          THEN /\ RecordDone(Null)
               /\ SetOutcome("nobutton")
               /\ EnterPhase("FAILED")
               /\ UNCHANGED <<pending, creationLog, abortVars>>
          ELSE /\ \E msg \in AlertChoices : TrapAlert(msg)
               /\ creationLog' = Append(creationLog, [rec |-> i + 1, kind |-> "click"])
               /\ pending' = Append(pending, "nonstock")
               /\ expectedRowIndex' = initialRowIndex + 1
               /\ pc' = "waitRow"
               /\ EnterPhase("CREATE_ROW")
               /\ InRecord
               /\ UNCHANGED <<initialRowIndex, newRowIndex, isStockItem, onclickSuccess,
                              cursor, rowBefore, createOutcome>>
    /\ UNCHANGED <<inputVars, counter, dom, auxLists, eventLog, searchOutcome>>

\* waitForRowToBeShown: check() on entry, on a mutation and every pollInterval,
\* and the rowTimeout timer
WaitRow ==
    /\ pc = "waitRow"
    /\ IF isAborted
       THEN /\ RecordDone(Null)
            /\ SetOutcome("aborted")
            /\ EnterPhase("FAILED")
       ELSE IF RowShown(expectedRowIndex)
       THEN /\ newRowIndex' = expectedRowIndex
            /\ pc' = "stablePre"
            /\ SetOutcome("created")
            /\ EnterPhase("STABILIZE_PRE")
            /\ InRecord
            /\ UNCHANGED <<initialRowIndex, expectedRowIndex, isStockItem, onclickSuccess,
                           cursor, rowBefore>>
       ELSE /\ RecordDone(Null)
            /\ SetOutcome("timeout")
            /\ EnterPhase("FAILED")
    /\ UNCHANGED <<inputVars, abortVars, hostVars, eventLog, creationLog, searchOutcome>>

-----------------------------------------------------------------------------
(* addOneRowAndFill, step 3: waitForDomStable, fillRow, waitForDomStable *)

\* the pre-fill waitForDomStable resolved (quiet window, budget spent or
\* abort: its value is not used); fillRow starts with getFieldFillOrder, which
\* throws when the schema is missing
StablePreDone ==
    /\ pc = "stablePre"
    /\ IF schemaLoaded
       THEN /\ pc' = "fill"
            /\ cursor' = 1
            /\ rowBefore' = IF newRowIndex \in 1..visMax THEN dom[newRowIndex] ELSE <<>>
            /\ EnterPhase("FILL_FIELDS")
            /\ InRecord
            /\ UNCHANGED <<initialRowIndex, expectedRowIndex, newRowIndex, isStockItem,
                           onclickSuccess>>
       ELSE /\ ExecutorThrows("TNO_SCHEMA missing")
            /\ EnterPhase("FAILED")
            /\ UNCHANGED <<i, newRowIds, progressCalls>>
    /\ UNCHANGED <<inputVars, abortVars, hostVars, eventLog, creationLog,
                   createOutcome, searchOutcome>>

\* fillRow: the names it never writes for a row the stock search created
fieldsToSkip ==
    IF isStockItem THEN {"stkcode_code", "stkcode_desc", "desc"} ELSE {}

\* fillRow: the order it walks
FillOrder == getFieldFillOrder(transactionType)

\* fillRow: the loop passes over a key without calling fillOneField
FillSkips(key, data) ==
    \/ key \in fieldsToSkip
    \/ key \notin DOMAIN data
    \/ IsSkippedValue(data[key])

\* fireFocusEvent, setValueDirectly, fireBlurEvent on the element of a text field
WriteEvents(row, base) ==
    <<(<<row, base, "focus">>), (<<row, base, "input">>),
      (<<row, base, "change">>), (<<row, base, "blur">>)>>

\* fillOneField for the keys of the schema (no checkbox, no smart box, no
\* read-only calculated field among them): the unit-price activation and the
\* hidden lists, then focus, value commit, blur; a host handler of these events
\* may alert
fillOneField(rowIndex, key, value, msg) ==
    LET fieldName == getColumnName(rowIndex, key, transactionType)
        base == fieldName[1]
        isPrice == key \in {"unit_list", "price_unitrate_forex"}
        isUom == key \in {"uom", "uom_trans_code"}
        exists == rowIndex \in 1..visMax
    IN IF fieldName = <<>>
       THEN /\ msg = NoAlert
            /\ UNCHANGED <<dom, auxLists, eventLog, abortVars>>
       ELSE /\ auxLists' = auxLists
                 \cup (IF isPrice THEN {<<"fmi_aup", rowIndex, "_list">>} ELSE {})
                 \cup (IF isUom THEN {<<"uom_trans_code", rowIndex, "_list">>} ELSE {})
            /\ IF exists
               THEN /\ dom' = [dom EXCEPT ![rowIndex] =
                                 [b \in RowBases |->
                                    IF b = base THEN value.s
                                    ELSE IF isPrice /\ b = "fmi_unit_price_editable" THEN <<"y">>
                                    ELSE @[b]]]
                    /\ eventLog' = [eventLog EXCEPT ![i + 1] =
                          @ \o (IF isPrice THEN <<(<<rowIndex, base, "activate">>)>> ELSE <<>>)
                            \o WriteEvents(rowIndex, base)]
                    /\ TrapAlert(msg)
               ELSE /\ msg = NoAlert
                    /\ UNCHANGED <<dom, eventLog, abortVars>>

\* a mutant: addOneRowAndFill returns once the fields are written, without
\* the post-fill wait
FillEnd_noPostWait ==
    /\ RecordDone(newRowIndex)
    /\ EnterPhase("DONE")

\* fillRow returned: addOneRowAndFill calls the post-fill waitForDomStable
FillEnd ==
    /\ pc' = "stablePost"
    /\ EnterPhase("STABILIZE_POST")
    /\ InRecord
    /\ UNCHANGED localVars

\* fillRow: the first place from `from` on whose key the loop does not pass
\* over, Len(order) + 1 when there is none
RECURSIVE NextWritten(_, _, _)
NextWritten(order, data, from) ==
    IF from > Len(order) THEN from
    ELSE IF FillSkips(order[from], data) THEN NextWritten(order, data, from + 1)
    ELSE from

\* fillRow's loop from one call of fillOneField to the next: the passes that
\* skip their key, then the abort test and the write of the next key; or the
\* loop's end (order walked or abort flag set)
FillStep ==
    /\ pc = "fill"
    /\ LET data == rows[i + 1].data
           at == NextWritten(FillOrder, data, cursor)
       IN IF at > Len(FillOrder) \/ isAborted
          THEN /\ FillEnd
               /\ UNCHANGED <<dom, auxLists, eventLog, abortVars>>
          ELSE /\ cursor' = at + 1
               /\ InRecord
               /\ UNCHANGED <<pc, phases, initialRowIndex, expectedRowIndex, newRowIndex,
                              isStockItem, onclickSuccess, rowBefore>>
               /\ \E msg \in AlertChoices :
                     fillOneField(newRowIndex, FillOrder[at], data[FillOrder[at]], msg)
    /\ UNCHANGED <<inputVars, counter, pending, creationLog, createOutcome, searchOutcome>>

\* the post-fill waitForDomStable resolved; addOneRowAndFill returns newRowIndex
StablePostDone ==
    /\ pc = "stablePost"
    /\ RecordDone(newRowIndex)
    /\ EnterPhase("DONE")
    /\ UNCHANGED <<inputVars, abortVars, hostVars, eventLog, creationLog, createOutcome,
                   searchOutcome>>

-----------------------------------------------------------------------------
(* The host page *)

\* the waits at which an alert of the host is taken: an alert while the engine
\* waits for the search input acts as one during the search poll, an alert
\* during the close delay as one during the poll for the row of the search
\* (no abort test lies in between)
HostAlertPoint == Suspended /\ pc \notin {"searchWaitInput", "searchClose"}

\* a host handler calls window.alert while the engine waits
HostAlert ==
    /\ HostAlertPoint
    /\ trapInstalled
    /\ \E msg \in AlertChoices \ {NoAlert} : TrapAlert(msg)
    /\ UNCHANGED <<inputVars, pc, localVars, callVars, hostVars, histVars>>

\* the waits at which a step of the host on its rows is taken: those whose
\* outcome it decides and the last one before the next read of the row index
\* (a step during another wait has the effect of the same step at the next of these)
HostRowPoint == pc \in {"searchAfter", "waitRow", "stablePost"}

\* the host answers its oldest creation request: the next row is shown
HostShowRow ==
    /\ HostRowPoint
    /\ pending # <<>>
    /\ dom' = Append(dom, HostRow(Head(pending)))
    /\ pending' = Tail(pending)
    /\ UNCHANGED <<inputVars, pc, localVars, callVars, abortVars, counter, auxLists,
                   histVars>>

\* the host brings its max-row counter up to the rows shown
HostSetCounter ==
    /\ HostRowPoint
    /\ hasCounter
    /\ counter < visMax
    /\ counter' = visMax
    /\ UNCHANGED <<inputVars, pc, localVars, callVars, abortVars, dom, pending, auxLists,
                   histVars>>

-----------------------------------------------------------------------------

Next ==
    \/ AddRowsEnter
    \/ SearchStart
    \/ SearchWaitInput
    \/ SearchPoll
    \/ SearchClose
    \/ SearchAfter
    \/ Click
    \/ WaitRow
    \/ StablePreDone
    \/ FillStep
    \/ StablePostDone
    \/ HostAlert
    \/ HostShowRow
    \/ HostSetCounter

Spec == Init /\ [][Next]_vars

\* the same engine on any page and for any caller
SpecAnyCaller == InitAnyCaller /\ [][Next]_vars

-----------------------------------------------------------------------------
(* fillOneField, call by call: every branch it has, for any key, any        *)
(* transaction type and any element the page may hold under the field name. *)
(* The keys gst, acct_disp, unit_price and amount, for which it has         *)
(* branches, are in no list of the shipped schema; fExtended stands for a   *)
(* page whose schema registers them as well.                                *)

\* the keys fillOneField has branches for beyond those of the shipped schema
ExtendedKeys == <<"gst", "acct_disp", "unit_price", "amount">>

\* getColumnName on the page of the call: the shipped fields, and the
\* extended ones (base = key, suffix {i}) when the schema registers them
FieldColumnName(rowIndex, key, t) ==
    IF key \in Range(getAllowedKeys(t)) THEN getColumnName(rowIndex, key, t)
    ELSE IF fExtended /\ key \in Range(ExtendedKeys) THEN <<key, rowIndex, "">>
    ELSE <<>>

\* !!value
Truthy(value) ==
    \/ value.type = "string" /\ value.s # <<>>
    \/ value.type = "number" /\ value.s # <<"0">>

\* inputs of the calls followed
FieldKeys == {"qnty_total", "price_unitrate_forex", "gst", "acct_disp", "amount", "foo"}
FieldTypes == {"default", "purchase", "constructor"}
FieldValues == {Str(<<"v">>), Num(<<"0">>)}
FieldElements ==
    {NoElement}
    \cup {[present |-> TRUE, kind |-> k, visible |-> v, readOnly |-> r,
           value |-> <<"o">>, checked |-> c] :
             k \in {"text", "hidden", "checkbox"}, v \in BOOLEAN, r \in BOOLEAN,
             c \in BOOLEAN}

\* the engine at rest while single calls are followed
EngineIdle ==
    /\ rows = <<>>
    /\ hasCounter = FALSE
    /\ EngineInit(ProgressCallbacks, {TRUE})

engineVars ==
    <<rows, onProgress, transactionType, schemaLoaded, hasCounter, pc, localVars,
      callVars, abortVars, hostVars, histVars>>

FieldInit ==
    /\ EngineIdle
    /\ OcrIdle
    /\ HelpersIdle
    /\ fExtended \in BOOLEAN
    /\ fType \in FieldTypes
    /\ fKey \in FieldKeys
    /\ fValue \in FieldValues
    /\ fEl \in {e \in FieldElements : e.kind # "checkbox" => ~e.checked}
    /\ fOld = fEl
    /\ fFlag = ""
    /\ fTodo = <<>>
    /\ fPc = "enter"
    /\ fAborted \in BOOLEAN
    /\ fThrown = ""
    /\ fLog = <<>>

\* a handler of the host, run by an event or during a wait, may call alert
HandlerMayAlert == \E alert \in BOOLEAN : fAborted' = (fAborted \/ alert)

FieldDone ==
    /\ fPc' = "done"
    /\ fTodo' = <<>>

\* fillOneField from its entry to the first event it dispatches: it picks
\* its branch
FieldEnter ==
    /\ fPc = "enter"
    /\ IF IsFunctionValue(getAllowedKeys(fType))
       THEN \* getColumnName: allowedKeys.includes is not a function
            /\ fThrown' = "TypeError"
            /\ FieldDone
            /\ UNCHANGED <<fEl, fFlag, fAborted, fLog>>
       ELSE IF FieldColumnName(1, fKey, fType) = <<>> \/ fAborted
       THEN /\ FieldDone
            /\ UNCHANGED <<fEl, fFlag, fAborted, fLog, fThrown>>
       ELSE IF fKey = "gst"
       THEN /\ IF fEl.present
               THEN fPc' = "run" /\ fTodo' = <<"focus", "toggle", "blur">>
               ELSE FieldDone
            /\ UNCHANGED <<fEl, fFlag, fAborted, fLog, fThrown>>
       ELSE LET isPrice == fKey \in {"unit_list", "price_unitrate_forex"}
                isSmartBox == fKey \in {"acct_disp", "dept_disp", "proj_disp"}
            IN /\ fFlag' = IF isPrice THEN "y" ELSE fFlag
               /\ \E legacy \in BOOLEAN :
                     \* UnitPriceEditable(rowIndex), or a click on the element
                     /\ fLog' = IF isPrice /\ ~legacy /\ fEl.present
                                THEN Append(fLog, "click") ELSE fLog
                     /\ IF isPrice THEN HandlerMayAlert ELSE UNCHANGED fAborted
               /\ UNCHANGED fThrown
               /\ IF ~fEl.present
                  THEN FieldDone /\ UNCHANGED fEl
                  ELSE IF fKey \in {"unit_price", "amount"} /\ fEl.readOnly
                  THEN /\ fPc' = "run" /\ fTodo' = <<"focus", "blur">>
                       /\ UNCHANGED fEl
                  ELSE IF ~fEl.visible \/ fEl.kind = "hidden"
                  THEN /\ fPc' = "run" /\ fTodo' = <<"focus", "set", "blur">>
                       /\ UNCHANGED fEl
                  ELSE IF isSmartBox
                  THEN /\ fPc' = "run"
                       /\ fTodo' = <<"set", "focus", "sleep", "blur", "sleep">>
                       /\ UNCHANGED fEl
                  ELSE \* typeFocusBlur up to its fast path
                       /\ fEl' = [fEl EXCEPT !.readOnly = FALSE]
                       /\ IF fAborted'
                          THEN FieldDone
                          ELSE fPc' = "run" /\ fTodo' = <<"focus", "setString", "blur">>
    /\ UNCHANGED <<engineVars, helperVars, ocrVars, fExtended, fType, fKey, fValue, fOld>>

FieldRunning(op) == fPc = "run" /\ fTodo # <<>> /\ Head(fTodo) = op

FieldNextOp ==
    /\ fTodo' = Tail(fTodo)
    /\ UNCHANGED <<engineVars, helperVars, ocrVars, fExtended, fType, fKey, fValue, fOld, fFlag, fPc,
                   fThrown>>

\* fireFocusEvent(element)
FieldFocus ==
    /\ FieldRunning("focus")
    /\ fLog' = Append(fLog, "focus")
    /\ HandlerMayAlert
    /\ UNCHANGED fEl
    /\ FieldNextOp

\* fireBlurEvent(element)
FieldBlur ==
    /\ FieldRunning("blur")
    /\ fLog' = Append(fLog, "blur")
    /\ HandlerMayAlert
    /\ UNCHANGED fEl
    /\ FieldNextOp

\* setValueDirectly(element, value): value as given ("set") or String(value),
\* which is truthy unless empty ("setString")
FieldSet ==
    /\ \E op \in {"set", "setString"} :
          /\ FieldRunning(op)
          /\ LET desired == IF op = "set" THEN Truthy(fValue) ELSE fValue.s # <<>>
             IN IF fEl.kind = "checkbox"
                THEN IF fEl.checked # desired
                     THEN /\ fEl' = [fEl EXCEPT !.readOnly = FALSE, !.checked = desired]
                          /\ fLog' = fLog \o <<"commit", "input", "change">>
                     ELSE /\ fEl' = [fEl EXCEPT !.readOnly = FALSE]
                          /\ fLog' = Append(fLog, "change")
                ELSE /\ fEl' = [fEl EXCEPT !.readOnly = FALSE, !.value = fValue.s]
                     /\ fLog' = fLog \o <<"commit", "input", "change">>
    /\ HandlerMayAlert
    /\ FieldNextOp

\* clickCheckboxLikeHuman(cb, !!value)
FieldToggle ==
    /\ FieldRunning("toggle")
    /\ IF fEl.checked # Truthy(fValue)
       THEN /\ fEl' = [fEl EXCEPT !.checked = Truthy(fValue)]
            /\ fLog' = fLog \o <<"click", "commit", "input", "change">>
            /\ HandlerMayAlert
       ELSE UNCHANGED <<fEl, fLog, fAborted>>
    /\ FieldNextOp

\* sleepAbortable(5, isAborted): the host may run meanwhile
FieldSleep ==
    /\ FieldRunning("sleep")
    /\ HandlerMayAlert
    /\ UNCHANGED <<fEl, fLog>>
    /\ FieldNextOp

\* the branch is through: fillOneField returns
FieldReturn ==
    /\ fPc = "run"
    /\ fTodo = <<>>
    /\ fPc' = "done"
    /\ UNCHANGED <<engineVars, helperVars, ocrVars, fExtended, fType, fKey, fValue, fEl, fOld, fFlag,
                   fTodo, fAborted, fThrown, fLog>>

FieldNext ==
    \/ FieldEnter
    \/ FieldFocus
    \/ FieldBlur
    \/ FieldSet
    \/ FieldToggle
    \/ FieldSleep
    \/ FieldReturn

SpecField == FieldInit /\ [][FieldNext]_vars

-----------------------------------------------------------------------------
(* getOcrResults of tno_ai_ocr_add_rows_ocr.js: one request per image, a    *)
(* retry after a 503, the items of all images in one list.  An item is      *)
(* <<image, k>>: the k-th item extracted from the response for that image.  *)

\* let retries = 3
MaxAttempts == 3

\* setTimeout(res, 2000)
RetryDelayMs == 2000

\* What the service may answer to a request: a 503, a 200 whose text yields
\* 0..MaxItems items, a 200 whose body is no JSON (response.json() throws), an
\* HTTP error, or no answer at all (fetch rejects)
Replies ==
    {[status |-> "503", items |-> 0], [status |-> "badjson", items |-> 0],
     [status |-> "500", items |-> 0], [status |-> "neterr", items |-> 0]}
    \cup {[status |-> "200", items |-> k] : k \in 0..MaxItems}

OcrInit ==
    /\ EngineIdle
    /\ FieldIdle
    /\ HelpersIdle
    /\ oFiles \in 0..MaxImages
    /\ oI = 0
    /\ oRetries = 0
    /\ oPc = "start"
    /\ oAllItems = <<>>
    /\ oReturned = NotReturned
    /\ oWaited = 0
    /\ oReqs = TupleOf(oFiles, <<>>)
    /\ oReplies = TupleOf(oFiles, <<>>)
    /\ oEnded = TupleOf(oFiles, "none")

\* the for loop's test at index idx with the items collected so far: the next
\* image is read, or allItems is returned
OcrLoopTest(idx, items) ==
    IF idx < oFiles
    THEN /\ oPc' = "read"
         /\ UNCHANGED oReturned
    ELSE /\ oPc' = "done"
         /\ oReturned' = items

\* getOcrResults up to its first await
OcrEnter ==
    /\ oPc = "start"
    /\ OcrLoopTest(0, <<>>)
    /\ UNCHANGED <<engineVars, helperVars, fieldVars, oFiles, oI, oRetries, oAllItems, oWaited, oReqs,
                   oReplies, oEnded>>

\* the FileReader has read files[i]: the payload of the image is built and the
\* retry loop entered (the promise has no error path: while a file is not
\* read the call stays here)
OcrRead ==
    /\ oPc = "read"
    /\ oRetries' = MaxAttempts
    /\ oWaited' = 0
    /\ oPc' = "send"
    /\ UNCHANGED <<engineVars, helperVars, fieldVars, oFiles, oI, oAllItems, oReturned, oReqs,
                   oReplies, oEnded>>

\* a mutant: the request carries every image of the batch
RequestImages_all(idx) == 1..oFiles

\* payload.contents[0].parts: the prompt and the one image files[idx]
RequestImages(idx) == {idx + 1}

\* the while loop's test and fetch(urlBase, ...)
OcrSend ==
    /\ oPc = "send"
    /\ oRetries > 0
    /\ oReqs' = [oReqs EXCEPT ![oI + 1] =
                   Append(@, [images |-> RequestImages(oI), waited |-> oWaited])]
    /\ oPc' = "await"
    /\ UNCHANGED <<engineVars, helperVars, fieldVars, oFiles, oI, oRetries, oAllItems, oReturned,
                   oWaited, oReplies, oEnded>>

\* a mutant: every failed request is tried again
ShouldRetry_anyFailure(reply) == reply.status # "200"

\* response.status === 503
ShouldRetry(reply) == reply.status = "503"

\* a mutant: allItems.unshift(...items)
PushItems_front(all, items) == items \o all

\* allItems.push(...items)
PushItems(all, items) == all \o items

\* the attempt for image idx + 1 is over: i++ and the loop's test
OcrEndImage(how, items) ==
    /\ oEnded' = [oEnded EXCEPT ![oI + 1] = how]
    /\ oAllItems' = items
    /\ oI' = oI + 1
    /\ OcrLoopTest(oI + 1, items)

\* a mutant: the while loop has no catch, the error leaves getOcrResults and
\* its promise rejects
CatchImageError_rethrow(items) ==
    /\ oPc' = "rejected"
    /\ UNCHANGED <<oI, oAllItems, oReturned, oEnded>>

\* catch (err) { console.error(...); break; }: an error thrown inside the try
\* (fetch rejected, the status was not ok, response.json() threw) ends the
\* attempt of the image with allItems as it was
CatchImageError(items) == OcrEndImage("error", items)

\* the response to the request in flight, or its failure
OcrReply ==
    /\ oPc = "await"
    /\ \E reply \in Replies :
          /\ oReplies' = [oReplies EXCEPT ![oI + 1] = Append(@, reply)]
          /\ IF ShouldRetry(reply)
             THEN /\ oRetries' = oRetries - 1
                  /\ IF oRetries - 1 > 0
                     THEN /\ oPc' = "delay"
                          /\ UNCHANGED <<oI, oAllItems, oReturned, oEnded>>
                     ELSE OcrEndImage("exhausted", oAllItems)
             ELSE /\ UNCHANGED oRetries
                  /\ IF reply.status = "200"
                     THEN OcrEndImage("ok",
                            PushItems(oAllItems, [k \in 1..reply.items |-> <<oI + 1, k>>]))
                     ELSE CatchImageError(oAllItems)
    /\ oWaited' = 0
    /\ UNCHANGED <<engineVars, helperVars, fieldVars, oFiles, oReqs>>

\* the 2-second timer set after a 503 fired: continue
OcrDelay ==
    /\ oPc = "delay"
    /\ oWaited' = oWaited + RetryDelayMs
    /\ oPc' = "send"
    /\ UNCHANGED <<engineVars, helperVars, fieldVars, oFiles, oI, oRetries, oAllItems, oReturned,
                   oReqs, oReplies, oEnded>>

OcrNext ==
    \/ OcrEnter
    \/ OcrRead
    \/ OcrSend
    \/ OcrReply
    \/ OcrDelay

SpecOcr == OcrInit /\ [][OcrNext]_vars

\* the FileReader of files[i] fired its error event (or abort): reader.onerror
\* is not set, so nothing resolves the promise getOcrResults awaits
OcrReadError ==
    /\ oPc = "read"
    /\ oPc' = "unread"
    /\ UNCHANGED <<engineVars, helperVars, fieldVars, oFiles, oI, oRetries, oAllItems, oReturned,
                   oWaited, oReqs, oReplies, oEnded>>

\* every file read ends (load or error), every request settles and the retry
\* timer fires: a step that can be taken is taken
FairOcrNext ==
    \/ OcrNext
    \/ OcrReadError

FairSpecOcr == OcrInit /\ [][FairOcrNext]_vars /\ WF_vars(FairOcrNext)

-----------------------------------------------------------------------------
(* safeJsonExtract of tno_ai_ocr_add_rows_ocr.js.  A response text is a     *)
(* sequence of tokens: the brackets and the comma of JSON, "{}" for an      *)
(* object literal, "1" for a scalar that JavaScript takes as true (a        *)
(* number other than 0, true, a string that is not empty), "null" for null  *)
(* and the scalars it takes as false (0, false, ""), "x" for any text that  *)
(* is no JSON (a sentence, a truncated value) and "fence" for a Markdown    *)
(* fence of three backquotes, with or without its json tag.  White space    *)
(* between tokens means nothing to JSON.parse and is left out.              *)

MaxTextLen == 5

JsonTokens == {"[", "]", ",", "{}", "1", "null", "x", "fence"}

ResponseTexts == UNION {[1..n -> JsonTokens] : n \in 0..MaxTextLen}

RECURSIVE JsonListLen(_)
RECURSIVE IsJsonValue(_)

\* JSON.parse succeeds on s: an object literal, a scalar, or an array of values
IsJsonValue(s) ==
    \/ s \in {<<"{}">>, <<"1">>, <<"null">>}
    \/ /\ Len(s) >= 2
       /\ s[1] = "[" /\ s[Len(s)] = "]"
       /\ (Len(s) = 2 \/ JsonListLen(SubSeq(s, 2, Len(s) - 1)) > 0)

\* the number of values of a comma-separated list of values, 0 - 1 if s is
\* no such list
JsonListLen(s) ==
    IF s = <<>> THEN 0 - 1
    ELSE IF IsJsonValue(s) THEN 1
    ELSE LET cuts == {k \in 2..(Len(s) - 1) :
                         /\ s[k] = ","
                         /\ IsJsonValue(SubSeq(s, 1, k - 1))
                         /\ JsonListLen(SubSeq(s, k + 1, Len(s))) > 0}
         IN IF cuts = {} THEN 0 - 1
            ELSE 1 + JsonListLen(SubSeq(s, (CHOOSE k \in cuts : TRUE) + 1, Len(s)))

\* what a try block around JSON.parse, normalizeAndValidate and sanitizeItems
\* yields: an exception, or one record per element of the parsed array
\* (Array.isArray(items) ? items : (items ? [items] : []): a value that is no
\* array gives one record when it is taken as true, none otherwise; arr.map
\* gives a record for every element, raw?.[k] being undefined on a scalar and
\* on null)
TryParse(s) ==
    IF ~IsJsonValue(s) THEN [threw |-> TRUE, items |-> 0]
    ELSE IF s \in {<<"{}">>, <<"1">>} THEN [threw |-> FALSE, items |-> 1]
    ELSE IF s = <<"null">> THEN [threw |-> FALSE, items |-> 0]
    ELSE IF Len(s) = 2 THEN [threw |-> FALSE, items |-> 0]
    ELSE [threw |-> FALSE, items |-> JsonListLen(SubSeq(s, 2, Len(s) - 1))]

\* cleaned: the text without its fences (the two replace calls on the fence
\* patterns, then trim)
CleanText(text) == SelectSeq(text, LAMBDA t : t # "fence")

\* cleaned.indexOf('[') and cleaned.lastIndexOf(']'), 1-based, 0 for -1
IndexOf(s, t) == IF \E k \in DOMAIN s : s[k] = t
                 THEN CHOOSE k \in DOMAIN s : s[k] = t /\ \A j \in 1..(k - 1) : s[j] # t
                 ELSE 0
LastIndexOf(s, t) == IF \E k \in DOMAIN s : s[k] = t
                     THEN CHOOSE k \in DOMAIN s : s[k] = t /\ \A j \in (k + 1)..Len(s) : s[j] # t
                     ELSE 0

\* cleaned.slice(start, end + 1) when start !== -1 && end !== -1 && end > start,
\* the empty sequence when the code takes no slice
BracketSlice(cleaned) ==
    LET start == IndexOf(cleaned, "[")
        end == LastIndexOf(cleaned, "]")
    IN IF start # 0 /\ end # 0 /\ end > start THEN SubSeq(cleaned, start, end) ELSE <<>>

\* a mutant: the second try has no catch, its exception leaves the function
InnerCatch_missing(r) == r

\* catch (_) {} of the second try, then return []
InnerCatch(r) == IF r.threw THEN [threw |-> FALSE, items |-> 0] ELSE r

safeJsonExtract(text) ==
    IF text = <<>> THEN [threw |-> FALSE, items |-> 0]
    ELSE LET cleaned == CleanText(text)
             first == TryParse(cleaned)
             slice == BracketSlice(cleaned)
         IN IF ~first.threw THEN first
            ELSE IF slice # <<>> THEN InnerCatch(TryParse(slice))
            ELSE [threw |-> FALSE, items |-> 0]

JsonInit ==
    /\ EngineIdle
    /\ FieldIdle
    /\ OcrIdle
    /\ HarnessIdle
    /\ LoaderIdle
    /\ TrapsIdle
    /\ StringIdle
    /\ ItemIdle
    /\ CompressIdle
    /\ WaitsIdle
    /\ jText \in ResponseTexts
    /\ jPc = "call"
    /\ jResult = [threw |-> FALSE, items |-> 0]

\* const items = safeJsonExtract(text, transactionType)
JsonCall ==
    /\ jPc = "call"
    /\ jResult' = safeJsonExtract(jText)
    /\ jPc' = "done"
    /\ UNCHANGED <<engineVars, fieldVars, ocrVars, harnessVars, loaderVars, trapVars, waitVars, stringVars, itemVars, compressVars, jText>>

JsonNext ==
    \/ JsonCall

SpecJson == JsonInit /\ [][JsonNext]_vars

-----------------------------------------------------------------------------
(* normalizeAndValidate and sanitizeItems of tno_ai_ocr_add_rows_ocr.js on  *)
(* one string field.  A string is the sequence of its runs, a run being     *)
(* [ch, n]: n >= 1 times the character ch, two neighbouring runs having     *)
(* different characters.  " " is any white space character (U+FEFF, white   *)
(* space to \s and to trim, among them), "zw" any of the zero-width         *)
(* characters U+200B..U+200D, which are no white space.                     *)

MaxRuns == 2

\* const DEFAULT_STRING_MAXLEN = 120
DEFAULT_STRING_MAXLEN == 120

StringChars == {"a", "b", " ", "zw"}
RunLens == {1, 4, 5, 10}
RepeatCounts == {1, 2, 4, 17, 61}

RunOf(c, n) == [ch |-> c, n |-> n]

\* the sum of the lengths of the runs lo..hi
RECURSIVE SumRuns(_, _, _)
SumRuns(rs, lo, hi) ==
    IF lo > hi THEN 0
    ELSE IF lo = hi THEN rs[lo].n
    ELSE SumRuns(rs, lo, (lo + hi) \div 2) + SumRuns(rs, ((lo + hi) \div 2) + 1, hi)

\* two strings put end to end: the last run of the one and the first of the
\* other are one run when they are of one character
JoinRuns(l, r) ==
    IF l = <<>> THEN r
    ELSE IF r = <<>> THEN l
    ELSE IF l[Len(l)].ch = r[1].ch
    THEN SubSeq(l, 1, Len(l) - 1) \o <<RunOf(r[1].ch, l[Len(l)].n + r[1].n)>> \o Tail(r)
    ELSE l \o r

RECURSIVE CanonRange(_, _, _)
CanonRange(rs, lo, hi) ==
    IF lo > hi THEN <<>>
    ELSE IF lo = hi THEN <<rs[lo]>>
    ELSE JoinRuns(CanonRange(rs, lo, (lo + hi) \div 2),
                  CanonRange(rs, ((lo + hi) \div 2) + 1, hi))

\* the string of a sequence of runs whose neighbours may be of one character:
\* neighbours of one character are one run
Canon(rs) == CanonRange(rs, 1, Len(rs))

\* String.prototype.repeat
Repeat(rs, times) == [k \in 1..(Len(rs) * times) |-> rs[((k - 1) % Len(rs)) + 1]]

\* s.length
StrLen(rs) == SumRuns(rs, 1, Len(rs))

\* the number of times c occurs in the string
CountOf(rs, c) ==
    LET of == SelectSeq(rs, LAMBDA r : r.ch = c) IN SumRuns(of, 1, Len(of))

\* the strings a response may carry in a field: a unit of up to MaxRuns runs,
\* repeated
RawStrings ==
    {Canon(Repeat(unit, times)) :
        unit \in UNION {[1..n -> {RunOf(c, n2) : c \in StringChars, n2 \in RunLens}] :
                          n \in 1..MaxRuns},
        times \in RepeatCounts}

\* the string fields of the legacy static spec followed here: a plain one and
\* a date part
LegacyStringKeys == {"code", "rqt_yr"}

\* schema.js: type of a field (def.type || 'string')
SchemaFieldType(k) == IF k \in {"qnty_total", "price_unitrate_forex"} THEN "number" ELSE "string"

\* schema.js: maxLen of the fields that have one
SchemaMaxLen ==
    [k \in {"stkcode_code", "description", "remark", "uom_trans_code"} |->
        CASE k = "stkcode_code" -> 64
          [] k = "description" -> 120
          [] k = "remark" -> 500
          [] OTHER -> 16]

\* getFieldSpec(transactionType).string
SpecStringKeys(loaded) ==
    IF loaded
    THEN {k \in Range(getAllowedKeys("default")) : SchemaFieldType(k) = "string"}
    ELSE LegacyStringKeys

\* getFieldMaxLens: key -> maxLen for the allowed string fields of the schema
\* with a positive numeric maxLen; the empty map without a schema
getFieldMaxLens(loaded) ==
    IF loaded
    THEN [k \in SpecStringKeys(loaded) \cap DOMAIN SchemaMaxLen |-> SchemaMaxLen[k]]
    ELSE <<>>

\* .replace(/[\u200B-\u200D\uFEFF]/g, '')
RemoveZeroWidth(rs) == Canon(SelectSeq(rs, LAMBDA r : r.ch # "zw"))

\* .replace(/\s+/g, ' ')
CollapseSpaces(rs) == [k \in DOMAIN rs |-> IF rs[k].ch = " " THEN RunOf(" ", 1) ELSE rs[k]]

\* String.prototype.trim
TrimRuns(rs) ==
    LET from == IF rs # <<>> /\ rs[1].ch = " " THEN 2 ELSE 1
        to == IF rs # <<>> /\ rs[Len(rs)].ch = " " THEN Len(rs) - 1 ELSE Len(rs)
    IN SubSeq(rs, from, to)

\* .replace(/(.)\1{4,}/g, '$1$1$1'): a run of five or more becomes three
CollapseRepeats(rs) == [k \in DOMAIN rs |-> IF rs[k].n >= 5 THEN RunOf(rs[k].ch, 3) ELSE rs[k]]

\* isNoiseString
isNoiseString(rs) ==
    /\ rs # <<>>
    /\ \/ StrLen(rs) >= 10 /\ \E k \in DOMAIN rs : rs[k].n >= 10
       \/ /\ StrLen(rs) >= 20
          /\ \E k \in DOMAIN rs : 5 * CountOf(rs, rs[k].ch) >= 4 * StrLen(rs)

\* the first cap characters of the runs lo..hi
RECURSIVE SliceRange(_, _, _, _)
SliceRange(rs, lo, hi, cap) ==
    IF lo > hi \/ cap <= 0 THEN <<>>
    ELSE IF SumRuns(rs, lo, hi) <= cap THEN SubSeq(rs, lo, hi)
    ELSE IF lo = hi THEN <<RunOf(rs[lo].ch, cap)>>
    ELSE IF SumRuns(rs, lo, (lo + hi) \div 2) >= cap
    THEN SliceRange(rs, lo, (lo + hi) \div 2, cap)
    ELSE SubSeq(rs, lo, (lo + hi) \div 2)
         \o SliceRange(rs, ((lo + hi) \div 2) + 1, hi,
                       cap - SumRuns(rs, lo, (lo + hi) \div 2))

\* s.slice(0, cap)
SliceTo(rs, cap) == SliceRange(rs, 1, Len(rs), cap)

\* cleanAndClampString
cleanAndClampString(value, maxLen) ==
    LET s1 == RemoveZeroWidth(value)
        s2 == TrimRuns(CollapseSpaces(s1))
        s3 == CollapseRepeats(s2)
    IN IF isNoiseString(s3) THEN <<>>
       ELSE IF StrLen(s3) > maxLen THEN SliceTo(s3, maxLen) ELSE s3

\* String.prototype.padStart(width, '0')
PadStart(rs, width) ==
    IF StrLen(rs) >= width THEN rs ELSE Canon(<<RunOf("0", width - StrLen(rs))>> \o rs)

\* normalizeAndValidate, for a key of spec.string whose raw value is a string:
\* white space collapsed and trimmed, a date part padded with zeros
NormalizeString(k, raw) ==
    LET v == TrimRuns(CollapseSpaces(raw))
    IN IF v = <<>> THEN v
       ELSE IF k \in {"rqt_day", "rqt_mth"} THEN PadStart(v, 2)
       ELSE IF k = "rqt_yr" THEN PadStart(v, 4)
       ELSE v

\* sanitizeItems, for a key of spec.string: the limit of the field or the default
SanitizeString(loaded, k, value) ==
    LET limitsMap == getFieldMaxLens(loaded)
        limit == IF k \in DOMAIN limitsMap THEN limitsMap[k] ELSE DEFAULT_STRING_MAXLEN
    IN cleanAndClampString(value, limit)

StringInit ==
    /\ EngineIdle
    /\ FieldIdle
    /\ OcrIdle
    /\ HarnessIdle
    /\ LoaderIdle
    /\ TrapsIdle
    /\ JsonIdle
    /\ ItemIdle
    /\ CompressIdle
    /\ WaitsIdle
    /\ sLoaded \in BOOLEAN
    /\ sKey \in SpecStringKeys(sLoaded)
    /\ sRaw \in RawStrings
    /\ sPc = "normalize"
    /\ sOut = <<>>

\* normalizeAndValidate(parsed, transactionType)
StringNormalize ==
    /\ sPc = "normalize"
    /\ sOut' = NormalizeString(sKey, sRaw)
    /\ sPc' = "sanitize"
    /\ UNCHANGED <<engineVars, fieldVars, ocrVars, harnessVars, loaderVars, trapVars, waitVars, jsonVars, itemVars, compressVars, sLoaded, sKey,
                   sRaw>>

\* sanitizeItems(normalized, transactionType)
StringSanitize ==
    /\ sPc = "sanitize"
    /\ sOut' = SanitizeString(sLoaded, sKey, sOut)
    /\ sPc' = "done"
    /\ UNCHANGED <<engineVars, fieldVars, ocrVars, harnessVars, loaderVars, trapVars, waitVars, jsonVars, itemVars, compressVars, sLoaded, sKey,
                   sRaw>>

StringNext ==
    \/ StringNormalize
    \/ StringSanitize

SpecString == StringInit /\ [][StringNext]_vars

-----------------------------------------------------------------------------
(* normalizeAndValidate and sanitizeItems on one element of the parsed      *)
(* array.  A value is [type, s] as above, s being the characters of the     *)
(* value; in the s of an array "SEP" stands between two elements, and the s *)
(* of the number 1e999, which JSON.parse reads as Infinity, is "Infinity".  *)

MaxNumLen == 2

BoolValue(b) == [type |-> "boolean", s |-> IF b THEN <<"t", "r", "u", "e">>
                                               ELSE <<"f", "a", "l", "s", "e">>]
ArrValue(chars) == [type |-> "array", s |-> chars]

Digits == {"0", "1"}
NumChars == Digits \cup {",", "$", "k", "-", ".", " "}

\* the strings a response may carry in a number field
NumberTexts == UNION {[1..n -> NumChars] : n \in 0..MaxNumLen}

\* Number.isFinite of a number value
IsFiniteNumber(v) == v.type = "number" /\ v.s # <<"Infinity">>

\* String(value), and value.join(sep) for an array
StringOf(v, sep) ==
    IF v.type = "array" THEN [k \in DOMAIN v.s |-> IF v.s[k] = "SEP" THEN sep ELSE v.s[k]]
    ELSE v.s

\* the number of leading characters of chars, from position from on, that
\* are digits
RECURSIVE DigitRun(_, _)
DigitRun(chars, from) ==
    IF from <= Len(chars) /\ chars[from] \in Digits THEN 1 + DigitRun(chars, from + 1) ELSE 0

\* parseFloat: the longest prefix that is a decimal number (a sign, digits, a
\* point, digits; the letters of an exponent or of Infinity were removed
\* before), the empty sequence for NaN
ParseFloatPrefix(chars) ==
    LET sign == IF chars # <<>> /\ chars[1] \in {"-", "+"} THEN 1 ELSE 0
        int == DigitRun(chars, sign + 1)
        point == sign + int + 1
        frac == IF point <= Len(chars) /\ chars[point] = "." THEN DigitRun(chars, point + 1)
                ELSE 0
    IN IF int + frac = 0 THEN <<>>
       ELSE IF point <= Len(chars) /\ chars[point] = "." THEN SubSeq(chars, 1, point + frac)
       ELSE SubSeq(chars, 1, sign + int)

\* what normalizeNumber removes before parseFloat: the characters of
\* /[\s,]/, /[$]/ and /[A-Za-z%]+/ that occur here
StrippedChars ==
    {" ", ",", "$"} \cup {"a", "b", "e", "f", "k", "l", "n", "r", "s", "t", "u", "x", "y", "Y"}

\* a mutant: what does not parse counts as zero
normalizeNumber_zero(v) ==
    IF v.type \in {"null", "undefined"} THEN NullValue
    ELSE IF v.type = "number" THEN (IF IsFiniteNumber(v) THEN v ELSE NullValue)
    ELSE LET str == SelectSeq(StringOf(v, ","),
                              LAMBDA c : c \notin StrippedChars)
             num == ParseFloatPrefix(str)
         IN IF num = <<>> THEN Num(<<"0">>) ELSE Num(num)

\* normalizeNumber
normalizeNumber(v) ==
    IF v.type \in {"null", "undefined"} THEN NullValue
    ELSE IF v.type = "number" THEN (IF IsFiniteNumber(v) THEN v ELSE NullValue)
    ELSE LET str == SelectSeq(StringOf(v, ","),
                              LAMBDA c : c \notin StrippedChars)
             num == ParseFloatPrefix(str)
         IN IF num = <<>> THEN NullValue ELSE Num(num)

\* value > 0 of a finite number
IsPositive(v) == v.s[1] # "-" /\ \E k \in DOMAIN v.s : v.s[k] = "1"

\* the strings coerceBoolean takes for true, of the characters told apart here
TrueWords == {<<"y">>, <<"y", "e", "s">>, <<"t", "r", "u", "e">>, <<"t">>, <<"1">>}

\* String.prototype.toLowerCase
ToLower(chars) == [k \in DOMAIN chars |-> IF chars[k] = "Y" THEN "y" ELSE chars[k]]

\* coerceBoolean
coerceBoolean(v) ==
    IF v.type = "boolean" THEN v
    ELSE IF v.type = "number" THEN BoolValue(~IsFiniteNumber(v) \/ IsPositive(v))
    ELSE IF v.type = "string"
    THEN IF ToLower(Trim(v.s)) \in TrueWords THEN BoolValue(TRUE)
         ELSE LET n == normalizeNumber(v)
              IN BoolValue(n # NullValue /\ IsPositive(n))
    ELSE BoolValue(FALSE)

\* a string of characters as its runs, and back
ToRuns(chars) == Canon([k \in DOMAIN chars |-> RunOf(chars[k], 1)])
RECURSIVE FromRuns(_)
FromRuns(rs) ==
    IF rs = <<>> THEN <<>>
    ELSE [k \in 1..rs[1].n |-> rs[1].ch] \o FromRuns(Tail(rs))

\* the legacy static spec of getFieldSpec
LegacySpec ==
    [string |-> {"code", "brand", "desc_short", "desc_long", "uom", "uomstk", "acct_disp",
                 "dept_disp", "proj_disp", "rqt_day", "rqt_mth", "rqt_yr", "batchnum"},
     number |-> {"qty", "unit_list", "disc_pct", "unit_price", "amount", "unit_w_gst",
                 "conv", "qty_uomstk", "uprice_uomstk"},
     boolean |-> {"gst"}]

\* getAllowedKeysFromSchema with a schema: s.transactions[transactionType] ||
\* s.transactions.default, for the types that name no member every object has
getAllowedKeysFromSchema(t) ==
    IF t \in DOMAIN SchemaTransactions THEN Range(SchemaTransactions[t])
    ELSE Range(SchemaTransactions["default"])

\* getFieldSpec: the keys of each type
getFieldSpec(loaded, t) ==
    IF loaded
    THEN LET allowed == getAllowedKeysFromSchema(t)
             fields == Range(SchemaFieldKeys)
         IN [string |-> {k \in fields \cap allowed : SchemaFieldType(k) \notin {"number", "boolean"}},
             number |-> {k \in fields \cap allowed : SchemaFieldType(k) = "number"},
             boolean |-> {k \in fields \cap allowed : SchemaFieldType(k) = "boolean"}]
    ELSE LegacySpec

\* raw?.[k]
RawAt(raw, k) == IF k \in DOMAIN raw THEN raw[k] ELSE UndefinedValue

\* a mutant: the record starts as a copy of the raw element
NormalizeKeys_spreadRaw(loaded, t, raw) ==
    DOMAIN raw \cup getFieldSpec(loaded, t).string \cup getFieldSpec(loaded, t).number
        \cup getFieldSpec(loaded, t).boolean

\* the keys normalizeAndValidate gives a record: const out = {} and one
\* assignment per key of the spec
NormalizeKeys(loaded, t, raw) ==
    getFieldSpec(loaded, t).string \cup getFieldSpec(loaded, t).number
        \cup getFieldSpec(loaded, t).boolean

\* normalizeAndValidate on one element
NormalizeItem(loaded, t, raw) ==
    LET spec == getFieldSpec(loaded, t)
    IN [k \in NormalizeKeys(loaded, t, raw) |->
          IF k \in spec.string
          THEN LET v == RawAt(raw, k)
                   chars == IF v.type \in {"null", "undefined"} THEN <<>> ELSE StringOf(v, " ")
               IN Str(FromRuns(NormalizeString(k, ToRuns(chars))))
          ELSE IF k \in spec.number THEN normalizeNumber(RawAt(raw, k))
          ELSE IF k \in spec.boolean THEN coerceBoolean(RawAt(raw, k))
          ELSE raw[k]]

\* sanitizeItems on one record: { ...row } with every key of spec.string cleaned
SanitizeItem(loaded, t, row) ==
    LET spec == getFieldSpec(loaded, t)
    IN [k \in DOMAIN row \cup spec.string |->
          IF k \in spec.string
          THEN Str(FromRuns(SanitizeString(loaded, k, ToRuns(StringOf(RawAt(row, k), ",")))))
          ELSE row[k]]

\* what a response may carry where a string, a number, a boolean is expected
StringishValues ==
    {UndefinedValue, Str(<<" ", "a", " ", " ", "b">>), BoolValue(TRUE),
     ArrValue(<<"a", "SEP", "b">>)}
NumberishValues ==
    {UndefinedValue, NullValue, Num(<<"1">>), Num(<<"0">>), Num(<<"Infinity">>),
     BoolValue(TRUE), ArrValue(<<"1", "SEP", "0">>), ArrValue(<<>>)}
        \cup {Str(chars) : chars \in NumberTexts}
BooleanishValues ==
    {UndefinedValue, BoolValue(TRUE), BoolValue(FALSE), Num(<<"0">>), Num(<<"1">>),
     Str(<<" ", "Y">>), Str(<<"0">>), ArrValue(<<"1">>)}

\* the transaction types an item is normalized for: the registered one and
\* one that is not registered
ItemTypes == {"default", "po"}

\* the keys of the raw element: a string field and a number field of the
\* spec in force, gst (a boolean of the legacy spec, no field of the schema)
\* and foo, a field of neither
RawStringKey(loaded) == IF loaded THEN "description" ELSE "code"
RawNumberKey(loaded) == IF loaded THEN "qnty_total" ELSE "qty"

ItemInit ==
    /\ EngineIdle
    /\ FieldIdle
    /\ OcrIdle
    /\ HarnessIdle
    /\ LoaderIdle
    /\ TrapsIdle
    /\ JsonIdle
    /\ StringIdle
    /\ CompressIdle
    /\ WaitsIdle
    /\ nLoaded \in BOOLEAN
    /\ nType \in ItemTypes
    /\ \E sv \in StringishValues, nv \in NumberishValues, bv \in BooleanishValues,
          fv \in {UndefinedValue, Str(<<"x">>)} :
          nRaw = [k \in {RawStringKey(nLoaded), RawNumberKey(nLoaded), "gst", "foo"} |->
                     IF k = "foo" THEN fv
                     ELSE IF k = "gst" THEN bv
                     ELSE IF k = RawNumberKey(nLoaded) THEN nv
                     ELSE sv]
    /\ nPc = "normalize"
    /\ nOut = <<>>

\* normalizeAndValidate(parsed, transactionType)
ItemNormalize ==
    /\ nPc = "normalize"
    /\ nOut' = NormalizeItem(nLoaded, nType, nRaw)
    /\ nPc' = "sanitize"
    /\ UNCHANGED <<engineVars, fieldVars, ocrVars, harnessVars, loaderVars, trapVars, waitVars, jsonVars, stringVars, compressVars, nLoaded,
                   nType, nRaw>>

\* sanitizeItems(normalized, transactionType)
ItemSanitize ==
    /\ nPc = "sanitize"
    /\ nOut' = SanitizeItem(nLoaded, nType, nOut)
    /\ nPc' = "done"
    /\ UNCHANGED <<engineVars, fieldVars, ocrVars, harnessVars, loaderVars, trapVars, waitVars, jsonVars, stringVars, compressVars, nLoaded,
                   nType, nRaw>>

ItemNext ==
    \/ ItemNormalize
    \/ ItemSanitize

SpecItem == ItemInit /\ [][ItemNext]_vars

-----------------------------------------------------------------------------
(* compressImage of tno_ai_ocr_add_rows_ocr.js.  Sizes are counted in       *)
(* levels 1..MaxBlobSize; a blob is [n, size], the n-th blob the encoder    *)
(* produced; the original file is [0, size].                                *)

MaxBlobSize == 3

\* for (let iter = 0; iter < 15; iter++)
MaxIterations == 15
\* let quality = 0.9, in hundredths
StartQuality == 90
\* const minQuality = 0.25, in hundredths
MinQuality == 25
\* quality - 0.1, in hundredths
QualityStep == 10
\* let scale = 1.0, in thousandths
StartScale == 1000
\* const minScale = 0.4, in thousandths
MinScale == 400
\* const downscaleStep = 0.85, in hundredths
DownscaleStep == 85

\* +(scale * downscaleStep).toFixed(3), in thousandths: the nearest
\* thousandth, the one tie of the sequence (0.85 * 0.85, a little under
\* 0.7225 in binary) going down
NextScale(scale) == (scale * DownscaleStep + 49) \div 100

\* Math.max(minQuality, +(quality - 0.1).toFixed(2))
NextQuality(quality) == IF quality - QualityStep > MinQuality THEN quality - QualityStep
                        ELSE MinQuality

CompressInit ==
    /\ EngineIdle
    /\ FieldIdle
    /\ OcrIdle
    /\ HarnessIdle
    /\ LoaderIdle
    /\ TrapsIdle
    /\ JsonIdle
    /\ StringIdle
    /\ ItemIdle
    /\ WaitsIdle
    /\ cFile \in [image : BOOLEAN, size : 1..MaxBlobSize]
    /\ cTarget \in {MaxBlobSize - 2, MaxBlobSize - 1}
    /\ cPc = "start"
    /\ cIter = 0
    /\ cQuality = 0
    /\ cScale = 0
    /\ cBest = NoBlob
    /\ cSizes = {}
    /\ cEncodes = 0
    /\ cFailed = FALSE
    /\ cResult = NoBlob

\* resolve(file): the original file is the result
ResolveOriginal ==
    /\ cResult' = [n |-> 0, size |-> cFile.size]
    /\ cPc' = "done"

\* resolve(out), out being a File of bestBlob
ResolveBest(best) ==
    /\ cResult' = best
    /\ cPc' = "done"

\* compressImage up to fr.readAsDataURL(file): a file that is no image is
\* returned as it is
CompressEnter ==
    /\ cPc = "start"
    /\ IF cFile.image
       THEN /\ cPc' = "load"
            /\ UNCHANGED cResult
       ELSE ResolveOriginal
    /\ UNCHANGED <<engineVars, fieldVars, ocrVars, harnessVars, loaderVars, trapVars, waitVars, jsonVars, stringVars, itemVars, cFile,
                   cTarget, cIter, cQuality, cScale, cBest, cSizes, cEncodes, cFailed>>

\* the call of canvasToBlob of iteration iter, or the end of the loop
LoopTest(iter, best) ==
    IF iter < MaxIterations
    THEN /\ cPc' = "encode"
         /\ cEncodes' = cEncodes + 1
         /\ UNCHANGED cResult
    ELSE /\ ResolveBest(best)
         /\ UNCHANGED cEncodes

\* img.onload up to the first await, or img.onerror
CompressLoad ==
    /\ cPc = "load"
    /\ \E loaded \in BOOLEAN :
          IF loaded
          THEN /\ cQuality' = StartQuality
               /\ cScale' = StartScale
               /\ LoopTest(0, NoBlob)
          ELSE /\ ResolveOriginal
               /\ UNCHANGED <<cQuality, cScale, cEncodes>>
    /\ UNCHANGED <<engineVars, fieldVars, ocrVars, harnessVars, loaderVars, trapVars, waitVars, jsonVars, stringVars, itemVars, cFile,
                   cTarget, cIter, cBest, cSizes, cFailed>>

\* a mutant: bestBlob is the last blob
KeepBest_last(best, blob) == blob

\* if (!bestBlob || blob.size < bestBlob.size) bestBlob = blob
KeepBest(best, blob) == IF best = NoBlob \/ blob.size < best.size THEN blob ELSE best

\* canvasToBlob settled: with a blob of some size, and the rest of the
\* iteration runs up to the next canvasToBlob call or to resolve(out); or
\* with a rejection, and the catch resolves with the original file
CompressEncode ==
    /\ cPc = "encode"
    /\ \/ \E size \in 1..MaxBlobSize :
             LET blob == [n |-> cEncodes, size |-> size]
                 best == KeepBest(cBest, blob)
             IN /\ cSizes' = cSizes \cup {size}
                /\ UNCHANGED cFailed
                /\ IF size <= cTarget
                   THEN /\ cBest' = blob
                        /\ ResolveBest(blob)
                        /\ UNCHANGED <<cIter, cQuality, cScale, cEncodes>>
                   ELSE /\ cBest' = best
                        /\ IF cQuality > MinQuality
                           THEN /\ cQuality' = NextQuality(cQuality)
                                /\ cIter' = cIter + 1
                                /\ LoopTest(cIter + 1, best)
                                /\ UNCHANGED cScale
                           ELSE IF cScale > MinScale
                           THEN /\ cScale' = NextScale(cScale)
                                /\ cIter' = cIter + 1
                                /\ LoopTest(cIter + 1, best)
                                /\ UNCHANGED cQuality
                           ELSE /\ ResolveBest(best)
                                /\ UNCHANGED <<cIter, cQuality, cScale, cEncodes>>
       \/ /\ cFailed' = TRUE
          /\ ResolveOriginal
          /\ UNCHANGED <<cIter, cQuality, cScale, cBest, cSizes, cEncodes>>
    /\ UNCHANGED <<engineVars, fieldVars, ocrVars, harnessVars, loaderVars, trapVars, waitVars, jsonVars, stringVars, itemVars, cFile,
                   cTarget>>

CompressNext ==
    \/ CompressEnter
    \/ CompressLoad
    \/ CompressEncode

SpecCompress == CompressInit /\ [][CompressNext]_vars

-----------------------------------------------------------------------------
(* The waits of the engine, timer by timer: waitForDomStable,               *)
(* waitForRowToBeShown, sleepAbortable, the poll of                         *)
(* autoSearchStockCode.watchAndSelectThenClose and the poll of              *)
(* addOneRowAndFill for the row of a resolved search.  Time is in           *)
(* milliseconds from the call and advances from one due timer to the next;  *)
(* a timer callback runs at its due time, two callbacks due together in     *)
(* either order; a MutationObserver callback runs with the mutation it      *)
(* reports.  The host page and the alert trap act between callbacks.        *)

WaitKinds == {"domStable", "rowShown", "sleep", "searchPoll", "searchRow"}

\* TNO_WAIT_CONFIG: the defaults
rowTimeout == 2500
pollInterval == 25
domStablePre == 400
domStablePost == 600
stableMsPre == 100
stableMsPost == 150

\* waitForDomStable: const checkInterval = 50
checkInterval == 50

\* sleepAbortable: const step = 20
SleepStep == 20

\* the pacing sleeps of typeFocusBlur and fillOneField: 4 to 10 ms
SleepMs == {5, 10}

\* autoSearchStockCode: timeout = 20000, interval = 120,
\* afterSelectionCloseDelay = 400
SearchTimeout == 20000
SearchInterval == 120
afterSelectionCloseDelay == 400

\* addOneRowAndFill: setInterval(..., 100) and attempts > 50
RowPollInterval == 100
RowPollAttempts == 50

\* the arguments addOneRowAndFill, typeFocusBlur and autoSearchStockCode call
\* each wait with.  container is rowsContainer, '#rowsTable tbody' or
\* document.body, an element in either case; hasCounter says whether an
\* element named HddenMaxRowAdded exists
WaitArgs(kind) ==
    CASE kind = "domStable" ->
           { [NoArgs EXCEPT !.caller = "pre", !.container = TRUE,
                            !.timeoutMs = domStablePre, !.stableMs = stableMsPre],
             [NoArgs EXCEPT !.caller = "post", !.container = TRUE,
                            !.timeoutMs = domStablePost, !.stableMs = stableMsPost] }
      [] kind = "rowShown" ->
           { [NoArgs EXCEPT !.container = TRUE, !.timeoutMs = rowTimeout, !.hasCounter = h] :
                h \in BOOLEAN }
      [] kind = "sleep" -> { [NoArgs EXCEPT !.timeoutMs = ms] : ms \in SleepMs }
      [] kind = "searchPoll" -> { [NoArgs EXCEPT !.timeoutMs = SearchTimeout] }
      [] OTHER -> { [NoArgs EXCEPT !.timeoutMs = RowPollInterval * (RowPollAttempts + 2)] }

WaitInit ==
    /\ EngineIdle
    /\ FieldIdle
    /\ OcrIdle
    /\ HarnessIdle
    /\ LoaderIdle
    /\ TrapsIdle
    /\ JsonIdle
    /\ StringIdle
    /\ ItemIdle
    /\ CompressIdle
    /\ wKind \in WaitKinds
    /\ wArgs \in WaitArgs(wKind)
    /\ wPc = "call"
    /\ wNow = 0
    /\ wAborted = FALSE
    /\ wAbortTicks = 0
    /\ wValue = "pending"
    /\ wResolvedAt = Null
    /\ wResolveCalls = 0
    /\ wPollerOn = FALSE
    /\ wPollerDue = 0
    /\ wTimerOn = FALSE
    /\ wTimerDue = 0
    /\ wObservers = {}
    /\ wLastMutation = 0
    /\ wRealMutation = 0
    /\ wRowVisible = FALSE
    /\ wCounterReached = FALSE
    /\ wAttempts = 0
    /\ wWaited = 0
    /\ wOnclick = FALSE
    /\ wThen = ""

waitPromiseVars == <<wValue, wResolvedAt, wResolveCalls, wPc>>
waitTimerVars == <<wPollerOn, wPollerDue, wTimerOn, wTimerDue, wObservers>>
waitHostVars == <<wRowVisible, wCounterReached, wLastMutation, wRealMutation>>
waitLocalVars == <<wAttempts, wWaited, wOnclick, wThen>>
waitFrame ==
    <<engineVars, fieldVars, ocrVars, harnessVars, loaderVars, trapVars, jsonVars, stringVars, itemVars, compressVars, wKind,
      wArgs>>

\* resolve(value), reject(error) or the return of an async function: the
\* first of them settles the promise, a later one does nothing
Settle(value) ==
    /\ wResolveCalls' = wResolveCalls + 1
    /\ IF wValue = "pending"
       THEN /\ wValue' = value
            /\ wResolvedAt' = wNow
            /\ wPc' = "done"
       ELSE UNCHANGED <<wValue, wResolvedAt, wPc>>

\* a callback of the wait ended it
Ends(value) ==
    /\ Settle(value)
    /\ UNCHANGED wAbortTicks

\* a callback of the wait ran and left the wait going
KeepWaiting ==
    /\ wAbortTicks' = IF wAborted THEN wAbortTicks + 1 ELSE wAbortTicks
    /\ UNCHANGED waitPromiseVars

\* the due times of the timers that are set
Due ==
    (IF wPollerOn THEN {wPollerDue} ELSE {}) \cup (IF wTimerOn THEN {wTimerDue} ELSE {})

\* no callback is due: the clock runs on to the next due time
WaitAdvance ==
    /\ Due # {}
    /\ \A t \in Due : t > wNow
    /\ wNow' = CHOOSE t \in Due : \A u \in Due : t <= u
    /\ UNCHANGED <<waitFrame, waitPromiseVars, waitTimerVars, waitHostVars, waitLocalVars,
                   wAborted, wAbortTicks>>

\* withAlertTrap: a host handler called window.alert
WaitAbort ==
    /\ wPc \in {"call", "wait"}
    /\ ~wAborted
    /\ wAborted' = TRUE
    /\ UNCHANGED <<waitFrame, waitPromiseVars, waitTimerVars, waitHostVars, waitLocalVars,
                   wNow, wAbortTicks>>

\* what addOneRowAndFill (typeFocusBlur for a sleep) does with the value of
\* the wait
Continuation(kind, caller, value) ==
    CASE kind = "domStable" -> IF caller = "pre" THEN "fillRow" ELSE "return newRowIndex"
      [] kind = "rowShown" -> IF value = "true" THEN "waitForDomStable" ELSE "return null"
      [] kind = "searchPoll" -> IF value = "resolved" THEN "searchRow" ELSE "click"
      [] kind = "searchRow" -> IF value = "stock" THEN "waitForDomStable" ELSE "click"
      [] OTHER -> "next"

\* the await of the caller goes on
WaitReturn ==
    /\ wPc = "done"
    /\ wPc' = "returned"
    /\ wThen' = Continuation(wKind, wArgs.caller, wValue)
    /\ UNCHANGED <<waitFrame, waitTimerVars, waitHostVars, wValue, wResolvedAt,
                   wResolveCalls, wAttempts, wWaited, wOnclick, wNow, wAborted, wAbortTicks>>

(* waitForDomStable *)

\* a mutant: the tick compares with the time of the call, not of the last mutation
DomStableQuiet_sinceCall(now, lastMutation, stableMs) == now >= stableMs

\* Date.now() - lastMutation >= stableMs
DomStableQuiet(now, lastMutation, stableMs) == now - lastMutation >= stableMs

\* the call up to its await: no container, true at once; else the observer,
\* the interval and the timeout timer
DomStableEnter ==
    /\ wKind = "domStable"
    /\ wPc = "call"
    /\ IF ~wArgs.container
       THEN /\ Settle("true")
            /\ UNCHANGED <<waitTimerVars, wLastMutation, wRealMutation>>
       ELSE /\ wLastMutation' = wNow
            /\ wRealMutation' = wNow
            /\ wObservers' = {"observer"}
            /\ wPollerOn' = TRUE
            /\ wPollerDue' = wNow + checkInterval
            /\ wTimerOn' = TRUE
            /\ wTimerDue' = wNow + wArgs.timeoutMs
            /\ wPc' = "wait"
            /\ UNCHANGED <<wValue, wResolvedAt, wResolveCalls>>
    /\ UNCHANGED <<waitFrame, waitLocalVars, wRowVisible, wCounterReached, wNow, wAborted,
                   wAbortTicks>>

\* the host changes the container; the observer, while connected, notes the time
DomMutate ==
    /\ wKind = "domStable"
    /\ wPc = "wait"
    /\ wRealMutation # wNow
    /\ wRealMutation' = wNow
    /\ wLastMutation' = IF "observer" \in wObservers THEN wNow ELSE wLastMutation
    /\ UNCHANGED <<waitFrame, waitPromiseVars, waitTimerVars, waitLocalVars, wRowVisible,
                   wCounterReached, wNow, wAborted, wAbortTicks>>

\* the callback of setInterval(..., checkInterval)
DomStableInterval ==
    /\ wKind = "domStable"
    /\ wPollerOn
    /\ wPollerDue = wNow
    /\ IF wAborted
       THEN /\ wPollerOn' = FALSE
            /\ wObservers' = {}
            /\ Ends("false")
            /\ UNCHANGED wPollerDue
       ELSE IF DomStableQuiet(wNow, wLastMutation, wArgs.stableMs)
       THEN /\ wPollerOn' = FALSE
            /\ wObservers' = {}
            /\ Ends("true")
            /\ UNCHANGED wPollerDue
       ELSE /\ wPollerDue' = wNow + checkInterval
            /\ KeepWaiting
            /\ UNCHANGED <<wPollerOn, wObservers>>
    /\ UNCHANGED <<waitFrame, waitHostVars, waitLocalVars, wTimerOn, wTimerDue, wNow,
                   wAborted>>

\* the callback of setTimeout(..., timeoutMs); nothing clears this timer, so
\* it also runs after the interval resolved
DomStableTimeout ==
    /\ wKind = "domStable"
    /\ wTimerOn
    /\ wTimerDue = wNow
    /\ wTimerOn' = FALSE
    /\ wPollerOn' = FALSE
    /\ wObservers' = {}
    /\ Ends("false")
    /\ UNCHANGED <<waitFrame, waitHostVars, waitLocalVars, wPollerDue, wTimerDue, wNow,
                   wAborted>>

(* waitForRowToBeShown *)

\* check()
RowCheck(isAbortedNow, hasCounterEl, counterReached, rowVisible) ==
    IF isAbortedNow THEN "aborted"
    ELSE IF hasCounterEl /\ counterReached THEN "true"
    ELSE IF rowVisible THEN "true"
    ELSE "false"

\* a mutant: finish leaves the timeout timer set
finish_keepTimer(value) ==
    IF wValue # "pending"
    THEN UNCHANGED <<waitPromiseVars, wObservers, wPollerOn, wTimerOn, wAbortTicks>>
    ELSE /\ wObservers' = {}
         /\ wPollerOn' = FALSE
         /\ UNCHANGED wTimerOn
         /\ Ends(value)

\* finish(result): nothing when done; else both observers disconnected, the
\* poller and the timer cleared, the promise resolved
finish(value) ==
    IF wValue # "pending"
    THEN UNCHANGED <<waitPromiseVars, wObservers, wPollerOn, wTimerOn, wAbortTicks>>
    ELSE /\ wObservers' = {}
         /\ wPollerOn' = FALSE
         /\ wTimerOn' = FALSE
         /\ Ends(value)

\* the body of the observer callbacks and of the poller, r being check()
RowCallback(r) ==
    CASE r = "true" -> finish("true")
      [] r = "aborted" -> finish("false")
      [] OTHER -> /\ KeepWaiting
                  /\ UNCHANGED <<wObservers, wPollerOn, wTimerOn>>

\* the call up to its await: the initial check, then the two observers, the
\* poller and the timer
RowEnter ==
    /\ wKind = "rowShown"
    /\ wPc = "call"
    /\ LET initial == RowCheck(wAborted, wArgs.hasCounter, wCounterReached, wRowVisible)
       IN CASE initial = "true" ->
                 /\ Settle("true")
                 /\ UNCHANGED waitTimerVars
            [] initial = "aborted" ->
                 /\ Settle("false")
                 /\ UNCHANGED waitTimerVars
            [] OTHER ->
                 /\ wObservers' = IF wArgs.hasCounter THEN {"observer1", "observer2"}
                                  ELSE {"observer1"}
                 /\ wPollerOn' = TRUE
                 /\ wPollerDue' = wNow + pollInterval
                 /\ wTimerOn' = TRUE
                 /\ wTimerDue' = wNow + wArgs.timeoutMs
                 /\ wPc' = "wait"
                 /\ UNCHANGED <<wValue, wResolvedAt, wResolveCalls>>
    /\ UNCHANGED <<waitFrame, waitHostVars, waitLocalVars, wNow, wAborted, wAbortTicks>>

\* the callback of setInterval(..., pollInterval)
RowPoller ==
    /\ wKind = "rowShown"
    /\ wPollerOn
    /\ wPollerDue = wNow
    /\ RowCallback(RowCheck(wAborted, wArgs.hasCounter, wCounterReached, wRowVisible))
    /\ wPollerDue' = wNow + pollInterval
    /\ UNCHANGED <<waitFrame, waitHostVars, waitLocalVars, wTimerDue, wNow, wAborted>>

\* the callback of setTimeout(() => finish(false), timeoutMs)
RowTimeout ==
    /\ wKind = "rowShown"
    /\ wTimerOn
    /\ wTimerDue = wNow
    /\ finish("false")
    /\ UNCHANGED <<waitFrame, waitHostVars, waitLocalVars, wPollerDue, wTimerDue, wNow,
                   wAborted>>

\* the host shows the expected row (for the poll after a search: a row above
\* initialRowIndex); observer1, while connected, runs its callback
HostShowsRow ==
    /\ wKind \in {"rowShown", "searchRow"}
    /\ wPc \in {"call", "wait"}
    /\ ~wRowVisible
    /\ wRowVisible' = TRUE
    /\ IF "observer1" \in wObservers
       THEN RowCallback(RowCheck(wAborted, wArgs.hasCounter, wCounterReached, TRUE))
       ELSE UNCHANGED <<waitPromiseVars, wObservers, wPollerOn, wTimerOn, wAbortTicks>>
    /\ UNCHANGED <<waitFrame, waitLocalVars, wCounterReached, wLastMutation, wRealMutation,
                   wPollerDue, wTimerDue, wNow, wAborted>>

\* the host brings HddenMaxRowAdded up to the expected index; a callback of
\* observer1 or observer2 runs when the write is one they are told of (one of
\* the value attribute inside the container), none when it sets the property
HostRaisesCounter ==
    /\ wKind = "rowShown"
    /\ wPc \in {"call", "wait"}
    /\ wArgs.hasCounter
    /\ ~wCounterReached
    /\ wCounterReached' = TRUE
    /\ \E observed \in BOOLEAN :
          IF observed /\ wObservers # {}
          THEN RowCallback(RowCheck(wAborted, TRUE, TRUE, wRowVisible))
          ELSE UNCHANGED <<waitPromiseVars, wObservers, wPollerOn, wTimerOn, wAbortTicks>>
    /\ UNCHANGED <<waitFrame, waitLocalVars, wRowVisible, wLastMutation, wRealMutation,
                   wPollerDue, wTimerDue, wNow, wAborted>>

\* the host changes something else in the container once the abort flag is
\* set: the callback of observer1 finds the wait aborted (before that its
\* check is false and nothing changes)
HostMutatesRows ==
    /\ wKind = "rowShown"
    /\ wPc = "wait"
    /\ wAborted
    /\ "observer1" \in wObservers
    /\ RowCallback(RowCheck(wAborted, wArgs.hasCounter, wCounterReached, wRowVisible))
    /\ UNCHANGED <<waitFrame, waitHostVars, waitLocalVars, wPollerDue, wTimerDue, wNow,
                   wAborted>>

(* sleepAbortable *)

\* the while loop from its test to its await, waited being the time slept
SleepLoop(waited) ==
    IF waited < wArgs.timeoutMs
    THEN IF wAborted
         THEN /\ Ends("void")
              /\ wTimerOn' = FALSE
              /\ UNCHANGED wTimerDue
         ELSE /\ wTimerOn' = TRUE
              /\ wTimerDue' = wNow + (IF SleepStep < wArgs.timeoutMs - waited THEN SleepStep
                                      ELSE wArgs.timeoutMs - waited)
              /\ wPc' = "wait"
              /\ wAbortTicks' = wAbortTicks
              /\ UNCHANGED <<wValue, wResolvedAt, wResolveCalls>>
    ELSE /\ Ends("void")
         /\ wTimerOn' = FALSE
         /\ UNCHANGED wTimerDue

\* the call up to its first await
SleepEnter ==
    /\ wKind = "sleep"
    /\ wPc = "call"
    /\ IF wAborted
       THEN /\ Ends("void")
            /\ UNCHANGED <<wTimerOn, wTimerDue>>
       ELSE SleepLoop(0)
    /\ UNCHANGED <<waitFrame, waitHostVars, waitLocalVars, wPollerOn, wPollerDue,
                   wObservers, wNow, wAborted>>

\* the timer of a slice ran: waited += slice, and the loop goes on
SleepTimer ==
    /\ wKind = "sleep"
    /\ wTimerOn
    /\ wTimerDue = wNow
    /\ LET slice == IF SleepStep < wArgs.timeoutMs - wWaited THEN SleepStep
                    ELSE wArgs.timeoutMs - wWaited
       IN /\ wWaited' = wWaited + slice
          /\ SleepLoop(wWaited + slice)
    /\ UNCHANGED <<waitFrame, waitHostVars, wAttempts, wOnclick, wThen, wPollerOn,
                   wPollerDue, wObservers, wNow, wAborted>>

(* autoSearchStockCode: watchAndSelectThenClose *)

\* poll(): the abort test, an item link (selected, the overlay closed after
\* afterSelectionCloseDelay), the empty state, or the next poll while the
\* timeout has not passed (t0 is the time of the call, 0)
SearchPollBody ==
    IF wAborted
    THEN /\ Ends("rejected")
         /\ wPollerOn' = FALSE
         /\ UNCHANGED <<wPollerDue, wTimerOn, wTimerDue, wOnclick>>
    ELSE \E found \in {"link", "empty", "none"} :
           CASE found = "link" ->
                  /\ wOnclick' \in BOOLEAN
                  /\ wPollerOn' = FALSE
                  /\ wTimerOn' = TRUE
                  /\ wTimerDue' = wNow + afterSelectionCloseDelay
                  /\ wPc' = "wait"
                  /\ UNCHANGED <<wPollerDue, wValue, wResolvedAt, wResolveCalls,
                                 wAbortTicks>>
             [] found = "empty" ->
                  /\ Ends("resolved")
                  /\ wPollerOn' = FALSE
                  /\ UNCHANGED <<wPollerDue, wTimerOn, wTimerDue, wOnclick>>
             [] OTHER ->
                  IF wNow < wArgs.timeoutMs
                  THEN /\ wPollerOn' = TRUE
                       /\ wPollerDue' = wNow + SearchInterval
                       /\ wPc' = "wait"
                       /\ UNCHANGED <<wTimerOn, wTimerDue, wOnclick, wValue, wResolvedAt,
                                      wResolveCalls, wAbortTicks>>
                  ELSE /\ Ends("rejected")
                       /\ wPollerOn' = FALSE
                       /\ UNCHANGED <<wPollerDue, wTimerOn, wTimerDue, wOnclick>>

\* watchAndSelectThenClose(): the first poll
SearchPollEnter ==
    /\ wKind = "searchPoll"
    /\ wPc = "call"
    /\ SearchPollBody
    /\ UNCHANGED <<waitFrame, waitHostVars, wAttempts, wWaited, wThen, wObservers, wNow,
                   wAborted>>

\* the callback of setTimeout(poll, interval)
SearchPollTimer ==
    /\ wKind = "searchPoll"
    /\ wPollerOn
    /\ wPollerDue = wNow
    /\ SearchPollBody
    /\ UNCHANGED <<waitFrame, waitHostVars, wAttempts, wWaited, wThen, wObservers, wNow,
                   wAborted>>

\* the callback of the close delay: clickClose, then resolve or reject
SearchPollClose ==
    /\ wKind = "searchPoll"
    /\ wTimerOn
    /\ wTimerDue = wNow
    /\ wTimerOn' = FALSE
    /\ Ends(IF wOnclick THEN "resolved" ELSE "rejected")
    /\ UNCHANGED <<waitFrame, waitHostVars, waitLocalVars, wPollerOn, wPollerDue, wTimerDue,
                   wObservers, wNow, wAborted>>

(* addOneRowAndFill: the poll for the row of a resolved search *)

\* the promise executor: attempts = 0 and the interval
SearchRowEnter ==
    /\ wKind = "searchRow"
    /\ wPc = "call"
    /\ wAttempts' = 0
    /\ wPollerOn' = TRUE
    /\ wPollerDue' = wNow + RowPollInterval
    /\ wPc' = "wait"
    /\ UNCHANGED <<waitFrame, waitHostVars, wValue, wResolvedAt, wResolveCalls, wWaited,
                   wOnclick, wThen, wTimerOn, wTimerDue, wObservers, wNow, wAborted,
                   wAbortTicks>>

\* currentIndex > initialRowIndex || attempts > 50
SearchRowEnds == wRowVisible \/ wAttempts > RowPollAttempts

\* the callback of setInterval(..., 100)
SearchRowTick ==
    /\ wKind = "searchRow"
    /\ wPollerOn
    /\ wPollerDue = wNow
    /\ IF SearchRowEnds
       THEN /\ wPollerOn' = FALSE
            /\ Ends(IF wRowVisible THEN "stock" ELSE "nonstock")
            /\ UNCHANGED wPollerDue
       ELSE /\ wPollerDue' = wNow + RowPollInterval
            /\ KeepWaiting
            /\ UNCHANGED wPollerOn
    /\ wAttempts' = wAttempts + 1
    /\ UNCHANGED <<waitFrame, waitHostVars, wWaited, wOnclick, wThen, wTimerOn, wTimerDue,
                   wObservers, wNow, wAborted>>

WaitNext ==
    \/ DomStableEnter
    \/ DomMutate
    \/ DomStableInterval
    \/ DomStableTimeout
    \/ RowEnter
    \/ RowPoller
    \/ RowTimeout
    \/ HostShowsRow
    \/ HostRaisesCounter
    \/ HostMutatesRows
    \/ SleepEnter
    \/ SleepTimer
    \/ SearchPollEnter
    \/ SearchPollTimer
    \/ SearchPollClose
    \/ SearchRowEnter
    \/ SearchRowTick
    \/ WaitAdvance
    \/ WaitAbort
    \/ WaitReturn

SpecWait == WaitInit /\ [][WaitNext]_vars

-----------------------------------------------------------------------------
(* withAlertTrap call by call: several $addRows calls on one page, each with *)
(* its own originalAlert, aborted and lastMsg.  A value of window.alert is   *)
(* 0, the function the page had before the first call, or c, the function    *)
(* call c installed.  What the executor does between the installation and    *)
(* the finally block is the batch followed above.                            *)

MaxCalls == 3

\* what no step of a withAlertTrap call changes
trapFrame ==
    <<engineVars, fieldVars, ocrVars, harnessVars, loaderVars, jsonVars, stringVars, itemVars, compressVars, waitVars>>

NoCall == [pc |-> "idle", originalAlert |-> 0, aborted |-> FALSE, settled |-> ""]

TrapInit ==
    /\ EngineIdle
    /\ FieldIdle
    /\ OcrIdle
    /\ HarnessIdle
    /\ LoaderIdle
    /\ JsonIdle
    /\ StringIdle
    /\ ItemIdle
    /\ CompressIdle
    /\ WaitsIdle
    /\ tAlert = 0
    /\ tCalls = [c \in 1..MaxCalls |-> NoCall]
    /\ tShown = 0
    /\ tOverlapped = FALSE

\* the functions that run when f is called: a trap calls its originalAlert
RECURSIVE AlertChain(_)
AlertChain(f) == IF f = 0 THEN {} ELSE {f} \cup AlertChain(tCalls[f].originalAlert)

\* a mutant: the finally block leaves window.alert as it is
RestoreAlert_never(c) == tAlert

\* finally { window.alert = originalAlert }
RestoreAlert(c) == tCalls[c].originalAlert

\* $addRows called: the empty-array return, or withAlertTrap up to its await
TrapCall(c) ==
    /\ tCalls[c].pc = "idle"
    /\ \A b \in 1..(c - 1) : tCalls[b].pc # "idle"
    /\ \E empty \in BOOLEAN :
          IF empty
          THEN /\ tCalls' = [tCalls EXCEPT ![c] = [@ EXCEPT !.pc = "settled",
                                                           !.settled = "resolved"]]
               /\ UNCHANGED <<tAlert, tOverlapped>>
          ELSE /\ tCalls' = [tCalls EXCEPT ![c] = [@ EXCEPT !.pc = "running",
                                                           !.originalAlert = tAlert]]
               /\ tAlert' = c
               /\ tOverlapped' = (tOverlapped \/ \E b \in 1..MaxCalls : tCalls[b].pc = "running")
    /\ UNCHANGED <<trapFrame, tShown>>

\* the page calls window.alert(msg): every trap on the chain passes the
\* message on and sets its flag
AlertRaised ==
    /\ tShown < MaxAlerts
    /\ tShown' = tShown + 1
    /\ tCalls' = [c \in 1..MaxCalls |->
                    IF c \in AlertChain(tAlert) THEN [tCalls[c] EXCEPT !.aborted = TRUE]
                    ELSE tCalls[c]]
    /\ UNCHANGED <<trapFrame, tAlert, tOverlapped>>

\* the executor of call c settled: the abort test, then the finally block
TrapSettle(c) ==
    /\ tCalls[c].pc = "running"
    /\ tCalls' = [tCalls EXCEPT ![c] =
                    [@ EXCEPT !.pc = "settled",
                              !.settled = IF tCalls[c].aborted THEN "rejected"
                                           ELSE "resolved"]]
    /\ tAlert' = RestoreAlert(c)
    /\ UNCHANGED <<trapFrame, tShown, tOverlapped>>

TrapNext ==
    \/ \E c \in 1..MaxCalls : TrapCall(c)
    \/ AlertRaised
    \/ \E c \in 1..MaxCalls : TrapSettle(c)

SpecTrap == TrapInit /\ [][TrapNext]_vars

-----------------------------------------------------------------------------
(* The loader overlay of tno_ai_ocr_add_rows_ocr.js: setLoaderState,         *)
(* openLoader, closeLoader, handleOverlayKeydown, and their callers          *)
(* handleFiles and the click handler of the submit button.  The overlay     *)
(* covers the page while it is shown, so the user reaches the drop zone and  *)
(* the submit button only while it is hidden.                                *)

MaxDrops == 2
MaxUploaded == 2

\* what no step of the loader changes
loaderFrame ==
    <<engineVars, fieldVars, ocrVars, harnessVars, jsonVars, stringVars, itemVars, compressVars, waitVars,
      trapVars>>

LoaderInit ==
    /\ EngineIdle
    /\ FieldIdle
    /\ OcrIdle
    /\ HarnessIdle
    /\ JsonIdle
    /\ StringIdle
    /\ ItemIdle
    /\ CompressIdle
    /\ WaitsIdle
    /\ TrapsIdle
    /\ LoaderIdle

\* ['complete', 'empty', 'error'].includes(state)
ClosableStates == {"complete", "empty", "error"}

IsClosable(state) == state \in ClosableStates

\* setLoaderState(state)
setLoaderState(state) ==
    /\ lState' = state
    /\ lClosable' = IsClosable(state)

\* openLoader(text, percent)
openLoader ==
    /\ lShown' = TRUE
    /\ setLoaderState("progress")
    /\ lKeydown' = TRUE

\* closeLoader()
closeLoader ==
    /\ lShown' = FALSE
    /\ lKeydown' = FALSE
    /\ setLoaderState("idle")

\* handleFiles(files) up to its first await: the images are added, and with
\* a PDF among the files the loader is opened and processPdf awaited
HandleFiles ==
    /\ ~lShown
    /\ lDrops < MaxDrops
    /\ lDrops' = lDrops + 1
    /\ \E images \in 0..1, pdfs \in BOOLEAN :
          /\ images > 0 \/ pdfs
          /\ lUploaded' = IF lUploaded + images > MaxUploaded THEN MaxUploaded
                          ELSE lUploaded + images
          /\ IF pdfs
             THEN /\ openLoader
                  /\ lRendering' = lRendering + 1
             ELSE UNCHANGED <<lState, lShown, lClosable, lKeydown, lRendering>>
    /\ UNCHANGED <<loaderFrame, lCloseTimers, lSubmitPc>>

\* handleFiles after its last processPdf: the pages are added,
\* setLoaderState('complete') and setTimeout(closeLoader, 300)
HandleFilesRendered ==
    /\ lRendering > 0
    /\ lRendering' = lRendering - 1
    /\ \E pages \in 0..1 :
          lUploaded' = IF lUploaded + pages > MaxUploaded THEN MaxUploaded
                       ELSE lUploaded + pages
    /\ setLoaderState("complete")
    /\ lCloseTimers' = lCloseTimers + 1
    /\ UNCHANGED <<loaderFrame, lShown, lKeydown, lSubmitPc, lDrops>>

\* the 300 ms timer of handleFiles fired
CloseTimerFired ==
    /\ lCloseTimers > 0
    /\ lCloseTimers' = lCloseTimers - 1
    /\ closeLoader
    /\ UNCHANGED <<loaderFrame, lRendering, lSubmitPc, lUploaded, lDrops>>

\* handleOverlayKeydown on an Escape key
EscapePressed ==
    /\ lKeydown
    /\ lClosable
    /\ closeLoader
    /\ UNCHANGED <<loaderFrame, lCloseTimers, lRendering, lSubmitPc, lUploaded, lDrops>>

\* the OK button, shown in the states complete, empty and error
DoneClicked ==
    /\ lShown
    /\ lState \in ClosableStates
    /\ closeLoader
    /\ UNCHANGED <<loaderFrame, lCloseTimers, lRendering, lSubmitPc, lUploaded, lDrops>>

\* the finally block of the submit handler
SubmitFinally ==
    /\ lSubmitPc' = "idle"
    /\ lUploaded' = 0

\* click on the submit button with files uploaded and an API key: the button
\* is disabled and the loader opened
SubmitClicked ==
    /\ ~lShown
    /\ lSubmitPc = "idle"
    /\ lUploaded > 0
    /\ lSubmitPc' = "compress"
    /\ openLoader
    /\ UNCHANGED <<loaderFrame, lCloseTimers, lRendering, lUploaded, lDrops>>

\* every compressImage call settled
SubmitCompressed ==
    /\ lSubmitPc = "compress"
    /\ lSubmitPc' = "ocr"
    /\ UNCHANGED <<loaderFrame, lState, lShown, lClosable, lKeydown, lCloseTimers, lRendering,
                   lUploaded, lDrops>>

\* getOcrResults settled: with records, $addRows is called; with none the
\* state is empty
SubmitOcrDone ==
    /\ lSubmitPc = "ocr"
    /\ \E records \in BOOLEAN :
          IF records
          THEN /\ lSubmitPc' = "rows"
               /\ UNCHANGED <<lState, lClosable, lUploaded>>
          ELSE /\ setLoaderState("empty")
               /\ SubmitFinally
    /\ UNCHANGED <<loaderFrame, lShown, lKeydown, lCloseTimers, lRendering, lDrops>>

\* $addRows settled: resolved, waitForDomStableLocal is awaited; rejected, the
\* catch sets the state error
SubmitRowsDone ==
    /\ lSubmitPc = "rows"
    /\ \E resolved \in BOOLEAN :
          IF resolved
          THEN /\ lSubmitPc' = "stable"
               /\ UNCHANGED <<lState, lClosable, lUploaded>>
          ELSE /\ setLoaderState("error")
               /\ SubmitFinally
    /\ UNCHANGED <<loaderFrame, lShown, lKeydown, lCloseTimers, lRendering, lDrops>>

\* waitForDomStableLocal settled: setLoaderState('complete')
SubmitStable ==
    /\ lSubmitPc = "stable"
    /\ setLoaderState("complete")
    /\ SubmitFinally
    /\ UNCHANGED <<loaderFrame, lShown, lKeydown, lCloseTimers, lRendering, lDrops>>

LoaderNext ==
    \/ HandleFiles
    \/ HandleFilesRendered
    \/ CloseTimerFired
    \/ EscapePressed
    \/ DoneClicked
    \/ SubmitClicked
    \/ SubmitCompressed
    \/ SubmitOcrDone
    \/ SubmitRowsDone
    \/ SubmitStable

SpecLoader == LoaderInit /\ [][LoaderNext]_vars

-----------------------------------------------------------------------------
(* The consistency-test harness: runTest and the click handlers of the       *)
(* Cancel and Export buttons.  The helpers it imports (resetUIState,         *)
(* renderRow, updateProgress, computeMetrics' utilities) return normally     *)
(* and leave the three buttons alone; callGemini settles, resolved or        *)
(* rejected, within its timeout.                                             *)

MaxN == 2
MaxExports == 1

\* what no step of the harness changes
harnessFrame ==
    <<engineVars, fieldVars, ocrVars, loaderVars, jsonVars, stringVars, itemVars, compressVars,
      waitVars, trapVars>>

HarnessInit ==
    /\ EngineIdle
    /\ FieldIdle
    /\ OcrIdle
    /\ JsonIdle
    /\ StringIdle
    /\ ItemIdle
    /\ CompressIdle
    /\ WaitsIdle
    /\ TrapsIdle
    /\ LoaderIdle
    /\ HarnessIdle

\* runTest is between its first await and its last statement
Running == hPc \in {"parts", "call", "delay"}

\* elements.exportBtn.disabled = lastResults.length > 0
ExportDisabledAfter(results) == Len(results) > 0

\* the statements after the loop
RunEnd(results) ==
    /\ hPc' = "finished"
    /\ hRunDisabled' = FALSE
    /\ hCancelDisabled' = TRUE
    /\ hExportDisabled' = ExportDisabledAfter(results)

\* a mutant: the loop does not test the flag
CancelTest_never == FALSE

\* if (cancelFlag) { renderRow(i, cancelled); break; }
CancelTest == hCancelFlag

\* the for loop at index idx: its test, the cancel test, the callGemini call
LoopTop(idx, results) ==
    IF idx > hN \/ CancelTest
    THEN /\ RunEnd(results)
         /\ UNCHANGED <<hI, hCalls>>
    ELSE /\ hPc' = "call"
         /\ hI' = idx
         /\ hCalls' = hCalls + 1
         /\ UNCHANGED <<hRunDisabled, hCancelDisabled, hExportDisabled>>

\* click on Run: runTest up to its first await, or to the return after an
\* alert for a missing key or prompt.  N is parseInt(runs) || 5; 0 stands for
\* a number below 1
RunClicked ==
    /\ ~hRunDisabled
    /\ ~Running
    /\ hCancelFlag' = FALSE
    /\ hResults' = <<>>
    /\ \E valid \in BOOLEAN, n \in 0..MaxN, delay \in BOOLEAN :
          IF valid
          THEN /\ hRunDisabled' = TRUE
               /\ hCancelDisabled' = FALSE
               /\ hExportDisabled' = TRUE
               /\ hPc' = "parts"
               /\ hN' = n
               /\ hDelay' = delay
               /\ hI' = 0
               /\ hCalls' = 0
          ELSE UNCHANGED <<hRunDisabled, hCancelDisabled, hExportDisabled, hPc, hN, hDelay, hI,
                           hCalls>>
    /\ UNCHANGED <<harnessFrame, hExports>>

\* filesToInlineParts settled: rejected, the catch enables Run and returns;
\* resolved, the loop is entered
PartsSettled ==
    /\ hPc = "parts"
    /\ \E ok \in BOOLEAN :
          IF ok
          THEN LoopTop(1, hResults)
          ELSE /\ hPc' = "failed"
               /\ hRunDisabled' = FALSE
               /\ hCancelDisabled' = TRUE
               /\ UNCHANGED <<hExportDisabled, hI, hCalls>>
    /\ UNCHANGED <<harnessFrame, hN, hDelay, hCancelFlag, hResults, hExports>>

\* callGemini settled: its result or its error is pushed, then the delay is
\* awaited or the next iteration begins
CallSettled ==
    /\ hPc = "call"
    /\ \E ok \in BOOLEAN :
          LET results == Append(hResults, ok)
          IN /\ hResults' = results
             /\ IF hI < hN /\ hDelay
                THEN /\ hPc' = "delay"
                     /\ UNCHANGED <<hI, hCalls, hRunDisabled, hCancelDisabled, hExportDisabled>>
                ELSE LoopTop(hI + 1, results)
    /\ UNCHANGED <<harnessFrame, hN, hDelay, hCancelFlag, hExports>>

\* the delay timer fired
DelayFired ==
    /\ hPc = "delay"
    /\ LoopTop(hI + 1, hResults)
    /\ UNCHANGED <<harnessFrame, hN, hDelay, hCancelFlag, hResults, hExports>>

\* click on Cancel
CancelClicked ==
    /\ ~hCancelDisabled
    /\ hCancelFlag' = TRUE
    /\ hCancelDisabled' = TRUE
    /\ UNCHANGED <<harnessFrame, hPc, hN, hI, hDelay, hResults, hCalls, hRunDisabled,
                   hExportDisabled, hExports>>

\* click on Export: lastResults is downloaded
ExportClicked ==
    /\ ~hExportDisabled
    /\ hExports < MaxExports
    /\ hExports' = hExports + 1
    /\ UNCHANGED <<harnessFrame, hPc, hN, hI, hDelay, hCancelFlag, hResults, hCalls,
                   hRunDisabled, hCancelDisabled, hExportDisabled>>

HarnessNext ==
    \/ RunClicked
    \/ PartsSettled
    \/ CallSettled
    \/ DelayFired
    \/ CancelClicked
    \/ ExportClicked

SpecHarness == HarnessInit /\ [][HarnessNext]_vars

\* every promise runTest awaits settles and its timer fires; the user need
\* not click anything
FairSpecHarness ==
    /\ SpecHarness
    /\ WF_vars(PartsSettled)
    /\ WF_vars(CallSettled)
    /\ WF_vars(DelayFired)

-----------------------------------------------------------------------------
(* Properties *)

Last(seq) == seq[Len(seq)]

\* the schema key whose element has this base name
KeyOfBase ==
    [base \in {DomBase(SchemaFieldKeys[n]) : n \in DOMAIN SchemaFieldKeys} |->
        CHOOSE k \in Range(SchemaFieldKeys) : DomBase(k) = base]

\* the place of a key in TNO_SCHEMA.fillOrder
FillOrderPos ==
    [key \in Range(SchemaFillOrder) |->
        CHOOSE n \in DOMAIN SchemaFillOrder : SchemaFillOrder[n] = key]

\* a value that is null, undefined or a string of nothing but whitespace
BlankValue(value) ==
    \/ value.type \in {"null", "undefined"}
    \/ value.type = "string" /\ \A n \in DOMAIN value.s : value.s[n] = " "

\* the non-null entries of a list of results are strictly increasing
StrictlyIncreasing(ids) ==
    \A a, b \in DOMAIN ids :
        (a < b /\ ids[a] # Null /\ ids[b] # Null) => ids[a] < ids[b]

\* record r is over: it failed, or it went through both stability waits
\* around its fill
RecordEnded(r) ==
    /\ phases[r] # <<>>
    /\ Last(phases[r]) \in {"DONE", "FAILED"}
    /\ Last(phases[r]) = "DONE" =>
          {"STABILIZE_PRE", "FILL_FIELDS", "STABILIZE_POST"} \subseteq Range(phases[r])

\* C1: a batch of N >= 1 records during which no alert fires resolves with
\* exactly N entries; entry k is null exactly when record k's row creation
\* failed (no add button, or the wait for the row timed out) and is a row
\* index (>= 1) of a created row otherwise.
C1_ResultPerRecord ==
    (pc = "settled" /\ Len(rows) >= 1 /\ alertsShown = <<>>) =>
        /\ settled = "resolved"
        /\ Len(result) = Len(rows)
        /\ \A k \in DOMAIN rows :
              /\ (result[k] = Null) <=> (createOutcome[k] \in {"nobutton", "timeout"})
              /\ (result[k] # Null) => (result[k] >= 1 /\ createOutcome[k] = "created")

\* C1 witness: a resolved batch of two records, the first failed, the second filled
C1_Witness ==
    /\ pc = "settled" /\ settled = "resolved" /\ Len(rows) = 2 /\ Len(result) = 2
    /\ result[1] = Null /\ createOutcome[1] = "timeout"
    /\ result[2] # Null

\* C2: whenever an alert was raised during the batch the flag is set, the
\* settled batch is rejected with code TNO_ALERT_ABORT, and no step clears the flag.
C2_AlertRejects ==
    /\ [](alertsShown # <<>> => aborted)
    /\ []((pc = "settled" /\ alertsShown # <<>>) =>
            (settled = "rejected" /\ err.code = "TNO_ALERT_ABORT"))
    /\ [][aborted => aborted']_vars

\* C2 witness: a batch of two rejected for an alert raised during its last record
C2_Witness ==
    /\ pc = "settled" /\ settled = "rejected" /\ err.code = "TNO_ALERT_ABORT"
    /\ Len(rows) = 2 /\ alertRec = 2

\* C3: once an alert fired while record k was in flight, every creation
\* request made (stock search or add-row click) is for a record <= k.
C3_NoCreationAfterAlertedRecord ==
    alertRec # 0 => \A n \in DOMAIN creationLog : creationLog[n].rec <= alertRec

\* C3 witness: an alert during the first of two records, after its row was requested
C3_Witness ==
    /\ pc = "settled" /\ Len(rows) = 2 /\ alertRec = 1
    /\ creationLog # <<>>

\* C4 (as claimed): a batch rejected for an alert still hands its caller the
\* row indices the executor had collected.
C4_PartialResultsDelivered ==
    (pc = "settled" /\ settled = "rejected") => result = newRowIds

C6_OneRecordAtATime ==
    \A r \in DOMAIN phases :
        \/ RecordEnded(r)
        \/ /\ phases[r] = <<>> \/ r = i + 1
           /\ \A n \in DOMAIN creationLog : creationLog[n].rec <= r

\* C6 witness: the second record's row is requested after the first was filled
C6_Witness ==
    /\ Len(rows) = 2
    /\ creationLog # <<>> /\ Last(creationLog).rec = 2
    /\ Last(phases[1]) = "DONE"

\* the keys whose value was committed for record r, in the order of the commits
WrittenKeys(r) ==
    LET IsCommit(e) == e[3] = "input"
        commits == SelectSeq(eventLog[r], IsCommit)
    IN [n \in DOMAIN commits |-> KeyOfBase[commits[n][2]]]

\* C7: the value commits of one record come in the order of the schema's
\* fillOrder and touch whitelisted fields only: of two fields written for a
\* record, the one written first is the one earlier in fillOrder.
C7_FillOrder ==
    LET allowed == Range(getAllowedKeys(transactionType))
    IN \A r \in DOMAIN eventLog :
          LET written == WrittenKeys(r)
          IN /\ \A n \in DOMAIN written : written[n] \in allowed
             /\ \A n \in 1..(Len(written) - 1) :
                   FillOrderPos[written[n]] < FillOrderPos[written[n + 1]]

\* C7 witness: a record whose own key order is price, quantity, unit, description
\* had them written as description, unit, quantity, price
C7_Witness ==
    /\ Len(rows) >= 1
    /\ SubSeq(rows[1].keys, 1, 4) =
          <<"price_unitrate_forex", "qnty_total", "uom_trans_code", "description">>
    /\ WrittenKeys(1) =
          <<"description", "uom_trans_code", "qnty_total", "price_unitrate_forex">>

\* C8 (as claimed): the non-null entries of the list a batch resolves with are
\* strictly increasing (the host's counter and visible rows only ever grow).
C8_ResultsStrictlyIncreasing ==
    (pc = "settled" /\ settled = "resolved") => StrictlyIncreasing(result)

C14_NoWorkWithoutSchema ==
    ~schemaLoaded => (creationLog = <<>> /\ pending = <<>> /\ dom = <<>>)

\* the number of entries of a result list that are row indices
CreatedCount(ids) == Cardinality({k \in DOMAIN ids : ids[k] # Null})

\* C16 (as claimed): when a batch during which no alert fired has settled, the
\* progress callback was invoked as many times as there are records with a
\* non-null result, so never for a failed record.
C16_ProgressPerCreatedRow ==
    (pc = "settled" /\ alertsShown = <<>>) => Len(progressCalls) = CreatedCount(newRowIds)

\* C16 (amended): the progress callback is invoked exactly once for every
\* record the loop finished without an abort, whether its row was created or
\* not: call k has current = k and total = the number of records, no call is
\* made for the record in flight at the first alert or for a later one, and a
\* batch without an alert ends with one call per record.
C16_ProgressPerFinishedRecord ==
    /\ Len(progressCalls) = i
    /\ \A k \in DOMAIN progressCalls : progressCalls[k] = <<k, Len(rows)>>
    /\ alertRec # 0 => Len(progressCalls) < alertRec
    /\ (pc = "settled" /\ alertsShown = <<>>) => Len(progressCalls) = Len(rows)

\* C16 witness: a settled batch of two records whose first record failed and
\* whose callback was invoked twice
C16_Witness ==
    /\ pc = "settled" /\ settled = "resolved" /\ Len(rows) = 2
    /\ result[1] = Null /\ result[2] # Null
    /\ progressCalls = <<(<<1, 2>>), (<<2, 2>>)>>

\* C17 (as claimed): whatever callback is supplied, a batch during which no
\* alert fired on a page with the schema resolves with one entry per record,
\* as it does with a callback that returns normally.
C17_CallbackIsAdvisory ==
    (pc = "settled" /\ schemaLoaded /\ alertsShown = <<>> /\ Len(rows) >= 1) =>
        (settled = "resolved" /\ Len(result) = Len(rows))

\* C11 (as claimed): every value commit of a fillOneField call comes after a
\* focus event on the element and, once the call has returned, before a blur
\* event on it, whatever branch the call took.
C11_FocusCommitBlur ==
    \A n \in DOMAIN fLog :
        fLog[n] = "commit" =>
            /\ \E m \in 1..(n - 1) : fLog[m] = "focus"
            /\ fPc = "done" => \E m \in (n + 1)..Len(fLog) : fLog[m] = "blur"

\* C12 (as claimed): when the element of a registered field was read-only as
\* the call began, the call dispatches nothing but focus and blur on it and
\* leaves its value and its read-only state as they were.
C12_ReadOnlyUntouched ==
    (fOld.present /\ fOld.readOnly) =>
        /\ Range(fLog) \subseteq {"focus", "blur"}
        /\ fEl.value = fOld.value
        /\ fEl.checked = fOld.checked
        /\ fEl.readOnly

\* C13 (as claimed): the field list resolved for any transaction-type name is
\* non-empty, and for a name that is no profile of the schema it is the list
\* of 'default'.
C13_UnknownTypeResolvesToDefault ==
    /\ getAllowedKeys(fType) # <<>>
    /\ fType \notin DOMAIN SchemaTransactions =>
          getAllowedKeys(fType) = getAllowedKeys("default")

\* C15 (as claimed): a call whose field id resolves to no DOM name, the id not
\* being registered, fails with an error.
C15_UnregisteredIdFails ==
    (/\ fPc = "done"
     /\ ~IsFunctionValue(getAllowedKeys(fType))
     /\ FieldColumnName(1, fKey, fType) = <<>>) => fThrown # ""

\* C18: an image gets at most 3 requests; a request that is not the first
\* for its image follows a 503 response to the one before it and a wait of
\* 2000 ms, and the first follows no wait; a response other than 503, or a
\* failed request, is the last of its image.
C18_RetryOnlyAfter503 ==
    \A img \in DOMAIN oReqs :
        /\ Len(oReqs[img]) <= 3
        /\ Len(oReplies[img]) <= Len(oReqs[img])
        /\ \A n \in DOMAIN oReqs[img] :
              IF n = 1
              THEN oReqs[img][n].waited = 0
              ELSE /\ oReplies[img][n - 1].status = "503"
                   /\ oReqs[img][n].waited = 2000
        /\ \A n \in DOMAIN oReplies[img] :
              oReplies[img][n].status # "503" =>
                  (n = Len(oReqs[img]) /\ oEnded[img] \in {"ok", "error"})

\* C18 witness: an image whose third request was sent after two 503 responses
\* and got a 503 again, which ended its attempt
C18_Witness ==
    /\ oFiles >= 1
    /\ Len(oReqs[1]) = 3
    /\ Len(oReplies[1]) = 3 /\ oReplies[1][3].status = "503"
    /\ oEnded[1] = "exhausted"

\* C19: every request carries exactly one image, the one the loop stands at,
\* and when a request for an image is sent the attempt of every earlier image
\* has ended and no later image has had a request.
C19_OneImagePerRequest ==
    \A img \in DOMAIN oReqs :
        /\ \A n \in DOMAIN oReqs[img] : oReqs[img][n].images = {img}
        /\ oReqs[img] # <<>> =>
              /\ \A j \in 1..(img - 1) : oEnded[j] # "none"
              /\ oEnded[img] = "none" =>
                    \A j \in (img + 1)..oFiles : oReqs[j] = <<>>

\* C19 witness: the second image's request is out, the first image having
\* given up after three 503 responses
C19_Witness ==
    /\ oFiles = 2 /\ oPc = "await" /\ oI = 1
    /\ oEnded[1] = "exhausted" /\ Len(oReqs[2]) = 1

\* the items of the images img..oFiles whose attempt succeeded, in image order
RECURSIVE ItemsFrom(_)
ItemsFrom(img) ==
    IF img > oFiles THEN <<>>
    ELSE (IF oEnded[img] = "ok"
          THEN [k \in 1..Last(oReplies[img]).items |-> <<img, k>>]
          ELSE <<>>) \o ItemsFrom(img + 1)

\* C20: the list getOcrResults returns is the concatenation, in image order,
\* of the items of the images whose attempt succeeded; it always returns a
\* list, the empty one included.
C20_ItemsInImageOrder ==
    /\ oPc = "done" => (oReturned # NotReturned /\ oReturned = ItemsFrom(1))
    /\ \A a, b \in DOMAIN oAllItems : a < b => oAllItems[a][1] <= oAllItems[b][1]

\* C20 witness: two images with items both, returned first image first
C20_Witness ==
    /\ oPc = "done" /\ oFiles = 2
    /\ oReturned = <<(<<1, 1>>), (<<1, 2>>), (<<2, 1>>)>>

\* C20 witness of the empty case: no image gave an item, the empty list is returned
C20_EmptyWitness ==
    /\ oPc = "done" /\ oFiles = 2 /\ oReturned = <<>>
    /\ oEnded[1] = "error" /\ oEnded[2] = "exhausted"

\* how the attempt of an image ends when it extracts nothing
FailedEnds == {"error", "exhausted"}

\* C21: a failure of one image (fetch rejected, a status that is not ok, a
\* body that is not JSON, three 503 responses) is absorbed: getOcrResults
\* never rejects, the failed image has no item in allItems, the loop goes on
\* to the next image, and when the call returns every image was requested.
C21_FailureAbsorbed ==
    /\ oPc # "rejected"
    /\ \A n \in DOMAIN oAllItems : oEnded[oAllItems[n][1]] = "ok"
    /\ \A img \in DOMAIN oEnded :
          oEnded[img] \in FailedEnds =>
              /\ oI >= img
              /\ img < oFiles => oPc \in {"read", "send", "await", "delay", "done"}
    /\ oPc = "done" =>
          /\ oReturned # NotReturned
          /\ \A img \in 1..oFiles : oReqs[img] # <<>> /\ oEnded[img] # "none"

\* C21 witness: the first image failed on a network error, the second was
\* requested all the same and gave its items, which are all the call returned
C21_Witness ==
    /\ oFiles = 2 /\ oPc = "done"
    /\ oEnded[1] = "error" /\ Last(oReplies[1]).status = "neterr"
    /\ oEnded[2] = "ok" /\ oReturned = <<(<<2, 1>>)>>

\* C22: safeJsonExtract never throws, and for a text of which neither the
\* whole cleaned text nor the part from its first "[" to its last "]" is
\* valid JSON it returns the empty list.
C22_NeverThrows ==
    jPc = "done" =>
        /\ ~jResult.threw
        /\ (~IsJsonValue(CleanText(jText)) /\ ~IsJsonValue(BracketSlice(CleanText(jText))))
              => jResult.items = 0

\* C22 witness: a text with brackets in it, fenced, of which neither the
\* whole nor the bracketed part parses; the call returned the empty list
C22_Witness ==
    /\ jPc = "done"
    /\ jText = <<"fence", "[", "{}", "x", "]">>
    /\ jResult = [threw |-> FALSE, items |-> 0]

\* C22 witness of the recovery: prose around an array of one object
C22_SliceWitness ==
    /\ jPc = "done"
    /\ jText = <<"x", "[", "{}", "]", "x">>
    /\ jResult = [threw |-> FALSE, items |-> 1]

\* what the claim calls a noise string: ten or more consecutive identical
\* characters, or a length of twenty or more of which one character makes up
\* four fifths
IsNoiseValue(rs) ==
    \/ \E k \in DOMAIN rs : rs[k].n >= 10
    \/ /\ StrLen(rs) >= 20
       /\ \E k \in DOMAIN rs : 5 * CountOf(rs, rs[k].ch) >= 4 * StrLen(rs)

\* C23: a string field whose value is a noise string comes out of the
\* pipeline as the empty string.
C23_NoiseSanitizesToEmpty ==
    (sPc = "done" /\ IsNoiseValue(sRaw)) => sOut = <<>>

\* the case of C23 the code handles as the claim says: four fifths of the
\* twenty characters are one character, in runs of four
C23_HandledCase ==
    /\ sPc = "done"
    /\ sRaw = Repeat(<<RunOf("a", 4), RunOf("b", 1)>>, 4)
    /\ sOut = <<>>

\* C30: a string field of a returned record is trimmed, has no two white
\* space characters in a row, and is no longer than the maxLen of its field,
\* or than 120 when the field has none.
C30_TrimmedAndClamped ==
    sPc = "done" =>
        /\ TrimRuns(sOut) = sOut
        /\ \A k \in DOMAIN sOut : sOut[k].ch = " " => sOut[k].n = 1
        /\ StrLen(sOut) <= (IF sLoaded /\ sKey \in DOMAIN SchemaMaxLen
                            THEN SchemaMaxLen[sKey] ELSE 120)

\* the fields in force for an item and the type each declares
ActiveFields(loaded, t) ==
    IF loaded THEN Range(SchemaTransactions["default"])
    ELSE LegacySpec.string \cup LegacySpec.number \cup LegacySpec.boolean
DeclaredType(loaded, k) ==
    IF loaded THEN SchemaFieldType(k)
    ELSE IF k \in LegacySpec.number THEN "number"
    ELSE IF k \in LegacySpec.boolean THEN "boolean"
    ELSE "string"

\* C24: a returned record has as keys exactly the fields in force for the
\* transaction type, whatever keys the response carried, and each value has
\* the type its field declares: a string, a boolean, a finite number or null;
\* a number field whose raw value holds no digit is null, not zero and not
\* left out.
C24_ExactKeysAndTypes ==
    nPc = "done" =>
        /\ DOMAIN nOut = ActiveFields(nLoaded, nType)
        /\ \A k \in DOMAIN nOut :
              CASE DeclaredType(nLoaded, k) = "number" ->
                       /\ nOut[k] = NullValue \/ IsFiniteNumber(nOut[k])
                       /\ (\A n \in DOMAIN RawAt(nRaw, k).s : RawAt(nRaw, k).s[n] \notin Digits)
                             => nOut[k] = NullValue
                [] DeclaredType(nLoaded, k) = "boolean" -> nOut[k].type = "boolean"
                [] OTHER -> nOut[k].type = "string"

\* C24 witness: an element with an unregistered key and a quantity that is no
\* number gave a record without that key and with the quantity null
C24_Witness ==
    /\ nPc = "done" /\ nLoaded
    /\ nRaw["foo"] = Str(<<"x">>) /\ nRaw["gst"] = BoolValue(TRUE)
    /\ nRaw["qnty_total"] = Str(<<"k", "-">>)
    /\ nOut["qnty_total"] = NullValue
    /\ nOut["price_unitrate_forex"] = NullValue
    /\ nOut["description"].type = "string"
    /\ "foo" \notin DOMAIN nOut /\ "gst" \notin DOMAIN nOut

\* what the claim says of a finished compressImage call
CompressOutcome ==
    /\ cEncodes <= MaxIterations
    /\ \A size \in cSizes : cResult.size <= size
    /\ IF \E size \in cSizes : size <= cTarget
       THEN cResult = [n |-> cEncodes, size |-> cResult.size] /\ cResult.size <= cTarget
       ELSE cResult.size \in cSizes

\* C25: compressImage encodes at most 15 times, stops at the first encode
\* that is no larger than the target and returns it, returns the smallest
\* encode when none reaches the target, and never returns more than any size
\* it produced.
C25_SmallestEncodeReturned ==
    /\ cPc = "encode" => \A size \in cSizes : size > cTarget
    /\ (cPc = "done" /\ cSizes # {}) => CompressOutcome

\* C25 as the code has it: the above for a call in which no encode failed;
\* a call in which the image did not load or an encode failed returns the
\* original file.
C25_SmallestEncodeUnlessFailed ==
    /\ cEncodes <= MaxIterations
    /\ cPc = "encode" => \A size \in cSizes : size > cTarget
    /\ (cPc = "done" /\ cEncodes > 0 /\ ~cFailed) => (CompressOutcome /\ cResult.n >= 1)
    /\ (cPc = "done" /\ (cEncodes = 0 \/ cFailed)) => cResult = [n |-> 0, size |-> cFile.size]

\* C25 witness: no encode reached the target, the loop ran out of quality
\* and scale steps, and the smallest blob, not the last, was returned
C25_Witness ==
    /\ cPc = "done" /\ ~cFailed
    /\ cQuality = MinQuality /\ cScale <= MinScale
    /\ cSizes = {MaxBlobSize - 1, MaxBlobSize} /\ cTarget = MaxBlobSize - 2
    /\ cResult.size = MaxBlobSize - 1 /\ cResult.n < cEncodes

\* C25 witness of the early stop: the second encode reached the target
C25_StopWitness ==
    /\ cPc = "done" /\ cEncodes = 2 /\ cResult = [n |-> 2, size |-> cTarget]

\* the phases of addOneRowAndFill in the order the function has them
PhaseOrder ==
    <<"SEARCH_STOCK", "CREATE_ROW", "STABILIZE_PRE", "FILL_FIELDS", "STABILIZE_POST",
      "DONE">>

PhaseRank(name) == CHOOSE n \in DOMAIN PhaseOrder : PhaseOrder[n] = name

\* the phases of a record that are steps of the function (FAILED marks the
\* return of null or the throw that ended it)
StepsOf(r) == SelectSeq(phases[r], LAMBDA name : name # "FAILED")

\* the row creation requests the host was given so far: those it answered
\* with a row and those it has not answered yet
RowRequests == Len(dom) + Len(pending)

\* the records that entered a phase so far
RecordsBegun == Cardinality({r \in DOMAIN phases : phases[r] # <<>>})

\* C26: per record the phases are entered in the order SEARCH_STOCK,
\* CREATE_ROW, STABILIZE_PRE, FILL_FIELDS, STABILIZE_POST, DONE; the stock
\* search runs exactly for a record whose stkcode_code is present and not
\* blank; the add-row control is clicked exactly when no search ran or the
\* search created no row; and no record asks the host for more than one row.
C26_OneRowPerRecordInPhaseOrder ==
    /\ \A r \in DOMAIN phases :
          /\ \A m, n \in DOMAIN StepsOf(r) :
                m < n => PhaseRank(StepsOf(r)[m]) < PhaseRank(StepsOf(r)[n])
          /\ phases[r] # <<>> =>
                (Head(phases[r]) = "SEARCH_STOCK" <=>
                    /\ "stkcode_code" \in DOMAIN rows[r].data
                    /\ rows[r].data["stkcode_code"].type \notin {"null", "undefined"}
                    /\ Trim(rows[r].data["stkcode_code"].s) # <<>>)
          /\ "STABILIZE_PRE" \in Range(phases[r]) =>
                \/ "CREATE_ROW" \in Range(phases[r])
                \/ "SEARCH_STOCK" \in Range(phases[r]) /\ searchOutcome[r] = "resolved"
    /\ pc \in {"stablePre", "fill", "stablePost"} =>
          (isStockItem <=> "CREATE_ROW" \notin Range(phases[i + 1]))
    /\ RowRequests <= RecordsBegun

\* the parts of C26 other than the count of requests
C26_PhaseOrderOnly ==
    /\ \A r \in DOMAIN phases :
          /\ \A m, n \in DOMAIN StepsOf(r) :
                m < n => PhaseRank(StepsOf(r)[m]) < PhaseRank(StepsOf(r)[n])
          /\ phases[r] # <<>> =>
                (Head(phases[r]) = "SEARCH_STOCK" <=>
                    /\ "stkcode_code" \in DOMAIN rows[r].data
                    /\ rows[r].data["stkcode_code"].type \notin {"null", "undefined"}
                    /\ Trim(rows[r].data["stkcode_code"].s) # <<>>)
          /\ "STABILIZE_PRE" \in Range(phases[r]) =>
                \/ "CREATE_ROW" \in Range(phases[r])
                \/ "SEARCH_STOCK" \in Range(phases[r]) /\ searchOutcome[r] = "resolved"
    /\ pc \in {"stablePre", "fill", "stablePost"} =>
          (isStockItem <=> "CREATE_ROW" \notin Range(phases[i + 1]))

\* C27: once the abort flag is set, every wait of the engine (the row
\* visibility wait, the DOM stability wait, the pacing sleep, the poll of the
\* stock search and the poll for the row of a search) ends at its next tick:
\* no callback of a wait finds the flag set and leaves the wait going.
C27_AbortEndsEveryWait == wAbortTicks = 0

\* the same for the waits other than the poll for the row of a search
C27_AbortEndsOtherWaits == wKind # "searchRow" => wAbortTicks = 0

\* an abort cut one of those waits short: a stability wait whose container
\* kept changing resolved false at the tick after the alert, before its budget
C27_AbortedWait ==
    /\ wKind = "domStable" /\ wAborted
    /\ wValue = "false" /\ wResolvedAt = 2 * checkInterval /\ wRealMutation = wResolvedAt

\* C28: waitForDomStable settles once and no later than its budget whatever
\* the host does to the container, settles with true only when no change of
\* the container fell in the last stableMs before it, and addOneRowAndFill
\* goes on to fillRow (pre-fill) or to its return (post-fill) whatever the
\* value.
C28_StabilityWaitBounded ==
    /\ [](wKind = "domStable" =>
            /\ wPc \in {"call", "wait"} => wNow <= wArgs.timeoutMs
            /\ wValue # "pending" => wResolvedAt \in 0..wArgs.timeoutMs
            /\ wValue = "true" => wResolvedAt - wRealMutation >= wArgs.stableMs
            /\ wPc = "returned" =>
                  wThen = IF wArgs.caller = "pre" THEN "fillRow" ELSE "return newRowIndex")
    /\ [][(wKind = "domStable" /\ wValue # "pending") =>
            (wValue' = wValue /\ wResolvedAt' = wResolvedAt)]_vars

\* C28 witness: the container changed at every tick of the post-fill wait,
\* the timer resolved it with false at the budget, the record was finished
C28_Witness ==
    /\ wKind = "domStable" /\ wArgs.caller = "post" /\ ~wAborted
    /\ wValue = "false" /\ wResolvedAt = domStablePost /\ wRealMutation = domStablePost
    /\ wPc = "returned" /\ wThen = "return newRowIndex"

\* C28 witness of a quiet window: a change 100 ms into the pre-fill wait, true
\* at 200 ms, and the timer's resolve(false) at 400 ms changing nothing
C28_QuietWitness ==
    /\ wKind = "domStable" /\ wArgs.caller = "pre"
    /\ wValue = "true" /\ wRealMutation = 2 * checkInterval
    /\ wResolvedAt = 2 * checkInterval + stableMsPre
    /\ wResolveCalls = 2 /\ ~wTimerOn /\ wThen = "fillRow"

\* C29: waitForRowToBeShown settles once; with true only when no alert had
\* been raised, the timeout had not passed and the counter had reached the
\* expected index or the expected row was shown; otherwise with false no
\* later than the timeout; and once it settled its observers are
\* disconnected and its poller and timer cleared.
C29_RowWaitResolvesOnce ==
    wKind = "rowShown" =>
        /\ wPc \in {"call", "wait"} => wNow <= wArgs.timeoutMs
        /\ wValue # "pending" =>
              /\ wValue \in {"true", "false"}
              /\ wResolveCalls = 1
              /\ wResolvedAt \in 0..wArgs.timeoutMs
              /\ wObservers = {} /\ ~wPollerOn /\ ~wTimerOn
        /\ wValue = "true" =>
              /\ ~wAborted
              /\ wRowVisible \/ (wArgs.hasCounter /\ wCounterReached)
        /\ wValue = "pending" => wResolveCalls = 0

\* C29 witness: the counter was raised by a write no observer saw, the poller
\* found it at its second tick, and observers, poller and timer were stopped
C29_Witness ==
    /\ wKind = "rowShown" /\ wArgs.hasCounter /\ wCounterReached /\ ~wRowVisible
    /\ wValue = "true" /\ wResolvedAt = 2 * pollInterval
    /\ wObservers = {} /\ ~wPollerOn /\ ~wTimerOn

\* C29 witness of the timeout: nothing was shown and the timer resolved false
C29_TimeoutWitness ==
    /\ wKind = "rowShown" /\ ~wAborted /\ ~wRowVisible /\ ~wCounterReached
    /\ wValue = "false" /\ wResolvedAt = rowTimeout /\ wPc = "returned"
    /\ wThen = "return null"

\* C31: every encode of compressImage uses a quality of at least 0.25 and a
\* scale of at least 0.4, and the scale is below 1 only once the quality is
\* at its floor.
C31_FloorsRespected ==
    cPc = "encode" =>
        /\ cQuality >= MinQuality
        /\ cScale >= MinScale
        /\ cScale < StartScale => cQuality = MinQuality

\* the parts of C31 other than the floor of the scale
C31_QualityFloorAndOrder ==
    cPc = "encode" =>
        /\ cQuality >= MinQuality
        /\ cScale < StartScale => cQuality = MinQuality

\* the records whose row the stock search created
StockRecords ==
    {r \in DOMAIN phases :
        "STABILIZE_PRE" \in Range(phases[r]) /\ "CREATE_ROW" \notin Range(phases[r])}

\* the inputs the host fills from the stock item
HostFilledBases == {"stkcode_code", "stkcode_desc", "desc"}

\* C32: for a record whose row the stock search created, the engine commits
\* no value to the inputs stkcode_code<i>, stkcode_desc<i> and desc<i>.
C32_StockFieldsKept ==
    \A r \in StockRecords :
       \A n \in DOMAIN eventLog[r] :
          eventLog[r][n][3] = "input" => eventLog[r][n][2] \notin HostFilledBases

\* the part of C32 that holds: the stock code of such a record is not written
C32_StockCodeKept ==
    \A r \in StockRecords :
       \A n \in DOMAIN eventLog[r] :
          eventLog[r][n][3] = "input" => eventLog[r][n][2] # "stkcode_code"

\* C33: once the abort flag is set no step of the batch starts a stock search
\* or clicks the add-row control, the record in flight when the alert was
\* raised included.
C33_NoRowRequestAfterAbort == [][aborted => creationLog' = creationLog]_vars

\* the part of C33 that holds: no stock search is started with the flag set
C33_NoSearchAfterAbort ==
    [][aborted => (pc' # "searchStart" /\ (pc = "searchStart" => creationLog' = creationLog))]_vars

\* no $addRows call is in flight
AllSettled == \A c \in 1..MaxCalls : tCalls[c].pc # "running"

\* C34: once every $addRows call has settled window.alert is the function the
\* page had before the first call, for any number of calls and any overlap of
\* them, so that a later alert sets the flag of no call.
C34_TrapUndone == AllSettled => tAlert = 0

\* the same for calls that do not overlap
C34_TrapUndoneInSequence == (AllSettled /\ ~tOverlapped) => tAlert = 0

\* three calls one after the other, two of them with rows, an alert during
\* the second, and the page's own alert back at the end
C34_SequenceWitness ==
    /\ \A c \in 1..MaxCalls : tCalls[c].pc = "settled"
    /\ ~tOverlapped /\ tAlert = 0
    /\ tCalls[2].settled = "rejected" /\ tCalls[3].settled = "resolved"
    /\ tCalls[3].originalAlert = 0 /\ tCalls[1].originalAlert = 0 /\ tShown = 1


-----------------------------------------------------------------------------
(* C35: whose request a filled row answers *)

\* the clicks on the add-row control, in order
Clicks == SelectSeq(creationLog, LAMBDA e : e.kind = "click")

\* every row request so far was a click on the add-row control (no item link
\* of the search overlay asked for a row): the host answers its requests in
\* order, so its n-th row answers the n-th click
OnlyClicks == RowRequests = Len(Clicks)

\* C35: the row reported for a record is a row the host created for that
\* record's own creation request; a row that answers the request of an earlier
\* record (late, after that record's wait timed out) is not taken by a later one.
C35_RowAnswersOwnRequest ==
    OnlyClicks =>
        \A r \in DOMAIN newRowIds :
            (newRowIds[r] # Null /\ newRowIds[r] \in 1..Len(dom))
                => Clicks[newRowIds[r]].rec = r


-----------------------------------------------------------------------------
(* C36: the extraction pipeline settles *)

\* C36: for every list of files and every outcome of each step (a file read
\* that succeeds or fails, any HTTP status, a network error) getOcrResults
\* eventually settles, every started request settling.
C36_OcrSettles == <>(oPc = "done")

\* what holds instead: the call settles or a file read has failed
C36_OcrSettlesOrUnread == <>(oPc \in {"done", "unread"})


-----------------------------------------------------------------------------
(* C37: no record without data *)

\* the object literals of a response text
ObjectCount(text) == Cardinality({k \in DOMAIN text : text[k] = "{}"})

\* C37: every record safeJsonExtract returns comes from a JSON object of the
\* response: a response whose JSON is a scalar, or an array of scalars and
\* nulls, yields no record.
C37_RecordsFromObjects ==
    jPc = "done" => jResult.items <= ObjectCount(jText)


-----------------------------------------------------------------------------
(* C38: the loader during a submission *)

\* C38: while a submission is processed the loader overlay stays open in
\* state progress: nothing, the delayed closeLoader of handleFiles included,
\* closes it or sets it to idle; Escape dismisses it only in the states
\* complete, empty and error.
C38_LoaderOpenWhileProcessing ==
    /\ lSubmitPc # "idle" => (lShown /\ lState = "progress")
    /\ lClosable <=> lState \in ClosableStates

\* what holds instead: Escape acts in the states complete, empty and error alone
C38_EscapeOnlyWhenClosable == lClosable <=> lState \in ClosableStates


-----------------------------------------------------------------------------
(* C39, C40: the harness *)

\* C39: once Cancel is clicked during a run no new model call is started in
\* that run, at most the call in flight completes and is recorded (every
\* recorded result is that of a call started), and the run ends with the Run
\* button enabled and the Cancel button disabled.
C39_CancelStopsRun ==
    /\ [][(Running /\ hCancelFlag) => hCalls' = hCalls]_vars
    /\ [](Len(hResults) <= hCalls)
    /\ ((Running /\ hCancelFlag) ~> (~Running /\ ~hRunDisabled /\ hCancelDisabled))

\* C39 witness: Cancel was clicked while the first of two calls was in
\* flight; the call was recorded and the run ended without a second call
C39_Witness ==
    /\ hPc = "finished" /\ hCancelFlag
    /\ hN = 2 /\ hCalls = 1 /\ Len(hResults) = 1
    /\ ~hRunDisabled /\ hCancelDisabled

\* C40: after a run that recorded at least one result the Export button is
\* enabled; after a run that recorded none it is disabled.
C40_ExportEnabledWithResults ==
    hPc = "finished" => (hExportDisabled <=> Len(hResults) = 0)

=============================================================================
